---- MODULE Spec2Model ----
(***************************************************************************)
(* Neptun Smart local integration: the coordinator's register poll, the    *)
(* snapshot decoder and the serialized register writes                     *)
(* (custom_components/neptun_smart_local/coordinator.py) together with the *)
(* controller's holding registers behind the Modbus transport.             *)
(***************************************************************************)
EXTENDS Integers, Sequences, FiniteSets, TLC

(***************************************************************************)
(* Bounds of the model.                                                    *)
(***************************************************************************)
\* concurrent callers (asyncio tasks) of the coordinator
NumTasks == 3
\* operations (polls and writes) started in one behaviour
MaxOps == 3
\* transport faults (failed connect, raised error, error response) injected
MaxFaults == 1
\* Lock objects that can ever be created for the session
MaxLocks == 2
\* wireless sensors the controller may report
MaxWireless == 1

(***************************************************************************)
(* Register map: the names coordinator.py imports from const. The addresses *)
(* 0, 1, 2, 4, 5, 7 and 123 and the block sizes also stand as literals in   *)
(* coordinator.py, select.py and switch.py; the two blocks between 7 and    *)
(* 123 follow from the 50-word cap of the wireless blocks and the 16 words  *)
(* of the water counters. Of the bits of the alarm/mode word only 1 << 8    *)
(* for zone 1 is literal in the sources; the others are taken from the     *)
(* controller's register map, and the operations below depend only on      *)
(* their being distinct bits.                                              *)
(***************************************************************************)
REG_ALARM_MODE == 0
REG_LINE_CFG_1_2 == 1
REG_LINE_CFG_3_4 == 2
REG_LEAK_SENSOR_RAW == 3
REG_RELAY_CFG == 4
REG_MODBUS_CFG == 5
REG_WIRELESS_SENSOR_COUNT == 6
REG_WIRELESS_PARAMS_START == 7
REG_WIRELESS_SENSORS_START == 57
REG_WATER_COUNTERS_START == 107
REG_WATER_COUNTERS_REG_COUNT == 16
REG_COUNTER_SETTINGS_START == 123
REG_COUNTER_SETTINGS_COUNT == 8
\* words of the leading block read by the poll
LEAD_BLOCK_COUNT == 7
\* cap on the wireless sensor count
WIRELESS_CAP == 50

BIT_FLOOR_WASHING_MODE == 1
BIT_ZONE_1 == 256
BIT_ZONE_2 == 512
BIT_DUAL_ZONE_MODE == 1024
MASK_ZONE_BOTH == 768
\* the zone-1 bit written literally as 1 << 8 by the toggles
ZONE_1_BIT8 == 256
WORD_MAX == 65535

(***************************************************************************)
(* Integer bit operations on non-negative Python ints.                     *)
(***************************************************************************)
RECURSIVE OrN(_, _)
OrN(a, b) ==
    IF a = 0 THEN b
    ELSE IF b = 0 THEN a
    ELSE (IF a % 2 = 1 \/ b % 2 = 1 THEN 1 ELSE 0) + 2 * OrN(a \div 2, b \div 2)

RECURSIVE AndN(_, _)
AndN(a, b) ==
    IF a = 0 \/ b = 0 THEN 0
    ELSE (IF a % 2 = 1 /\ b % 2 = 1 THEN 1 ELSE 0) + 2 * AndN(a \div 2, b \div 2)

RECURSIVE AndNotN(_, _)
AndNotN(a, b) ==
    IF a = 0 THEN 0
    ELSE IF b = 0 THEN a
    ELSE (IF a % 2 = 1 /\ b % 2 = 0 THEN 1 ELSE 0) + 2 * AndNotN(a \div 2, b \div 2)

\* (value >> shift) & ((1 << width) - 1)
Field(value, shift, width) == (value \div (2 ^ shift)) % (2 ^ width)

\* value | mask with bit 1 set as well
set_bits_and_bit_1(value, mask) == OrN(value, OrN(mask, 2))

set_bits(value, mask) == OrN(value, mask)

clear_bits(value, mask) == AndNotN(value, mask)

\* both zone bits set whatever the mode
toggle_zone_1_on_both(value) == set_bits(value, MASK_ZONE_BOTH)

toggle_zone_1_on(value) ==
    IF AndN(value, BIT_DUAL_ZONE_MODE) = 0
    THEN set_bits(value, MASK_ZONE_BOTH)
    ELSE set_bits(value, ZONE_1_BIT8)

toggle_zone_1_off(value) ==
    IF AndN(value, BIT_DUAL_ZONE_MODE) = 0
    THEN clear_bits(value, MASK_ZONE_BOTH)
    ELSE clear_bits(value, ZONE_1_BIT8)

\* the new code or-ed into the field, the old one not cleared
mask_transform_no_clear(shift, width, value, current) ==
    LET mask == ((2 ^ width) - 1) * (2 ^ shift)
    IN  OrN(current, AndN(value * (2 ^ shift), mask))

\* select.py: (current & ~mask) | ((value << shift) & mask)
mask_transform(shift, width, value, current) ==
    LET mask == ((2 ^ width) - 1) * (2 ^ shift)
    IN  OrN(AndNotN(current, mask), AndN(value * (2 ^ shift), mask))

(***************************************************************************)
(* State.                                                                  *)
(***************************************************************************)
VARIABLES
    dev,            \* the controller's holding registers: address -> word
    connected,      \* self._client.connected
    client,         \* self._client: what its methods accept and what was done to it
    lockObj,        \* self._lock: 0 for None, else the id of the Lock object
    holder,         \* per Lock object: the task holding it, or NoTask
    waiters,        \* per Lock object: the FIFO queue of tasks waiting for it
    data,           \* self.data: the published snapshot, or NoData
    refreshPending, \* a refresh was requested and has not started yet
    pc,             \* per task: its position in the operation it runs
    op,             \* per task: the operation it runs and its arguments
    loc,            \* per task: the local variables of the running operation
    outcome,        \* per task: how its last operation ended
    ev,             \* per task: what the running/last operation did, in order
    nOps,           \* operations started so far
    nFaults,        \* transport faults injected so far
    writeSeq        \* register writes of this session that reached the controller

vars == <<dev, connected, client, lockObj, holder, waiters, data, refreshPending,
          pc, op, loc, outcome, ev, nOps, nFaults, writeSeq>>

Tasks == 1..NumTasks
NoTask == 0
LockIds == 1..MaxLocks
NoData == [empty |-> TRUE]
\* Python's None for a register value
NoValue == -1
NoKey == <<"", 0>>

DevAddrs ==
    (REG_ALARM_MODE..(REG_ALARM_MODE + LEAD_BLOCK_COUNT - 1))
    \cup (REG_WIRELESS_PARAMS_START..(REG_WIRELESS_PARAMS_START + MaxWireless - 1))
    \cup (REG_WIRELESS_SENSORS_START..(REG_WIRELESS_SENSORS_START + MaxWireless - 1))
    \cup (REG_WATER_COUNTERS_START..(REG_WATER_COUNTERS_START + REG_WATER_COUNTERS_REG_COUNT - 1))
    \cup (REG_COUNTER_SETTINGS_START..(REG_COUNTER_SETTINGS_START + REG_COUNTER_SETTINGS_COUNT - 1))

\* the words the controller answers to read_holding_registers(address, count)
ReadRegs(address, count) ==
    [i \in 1..count |->
        IF (address + i - 1) \in DOMAIN dev THEN dev[address + i - 1] ELSE 0]

(***************************************************************************)
(* Snapshot decoder: the second half of _async_update_data.                *)
(***************************************************************************)
Max(a, b) == IF a >= b THEN a ELSE b
Min(a, b) == IF a <= b THEN a ELSE b

\* the types of lines 1 and 3 taken one bit too high
line_types_shift_11(line_cfg_1_2, line_cfg_3_4) ==
    <<Field(line_cfg_1_2, 11, 2), Field(line_cfg_1_2, 2, 2),
      Field(line_cfg_3_4, 11, 2), Field(line_cfg_3_4, 2, 2)>>

line_types(line_cfg_1_2, line_cfg_3_4) ==
    <<Field(line_cfg_1_2, 10, 2), Field(line_cfg_1_2, 2, 2),
      Field(line_cfg_3_4, 10, 2), Field(line_cfg_3_4, 2, 2)>>

line_groups(line_cfg_1_2, line_cfg_3_4) ==
    <<Field(line_cfg_1_2, 8, 2), Field(line_cfg_1_2, 0, 2),
      Field(line_cfg_3_4, 8, 2), Field(line_cfg_3_4, 0, 2)>>

\* the first active idx kept instead of the last
detected_leak_first(leak_sensor_raw, types, groups) ==
    LET active == {idx \in 1..4 :
                     \/ Field(leak_sensor_raw, idx - 1, 1) = 1
                     \/ types[idx] # 0
                     \/ groups[idx] # 0}
    IN  IF active = {} THEN 1 ELSE CHOOSE m \in active : \A k \in active : k >= m

\* the loop over idx in 1..4 keeps the last idx that is active; 1 when none is
detected_leak(leak_sensor_raw, types, groups) ==
    LET active == {idx \in 1..4 :
                     \/ Field(leak_sensor_raw, idx - 1, 1) = 1
                     \/ types[idx] # 0
                     \/ groups[idx] # 0}
    IN  IF active = {} THEN 1 ELSE CHOOSE m \in active : \A k \in active : k <= m

\* (hi << 16) | lo as a two's-complement signed 32-bit integer, in 0.001 m3:
\* bit 31 of the combination is bit 15 of hi, and value - 2^32 is
\* (hi - 2^16) * 2^16 + lo
water_value_sign_dropped(hi, lo) ==
    IF hi >= 32768 THEN (hi - 32768) * 65536 + lo ELSE hi * 65536 + lo

water_value(hi, lo) ==
    IF hi >= 32768 THEN (hi - 65536) * 65536 + lo ELSE hi * 65536 + lo

\* the key water_counter_s<slot>_p<port> of counter counter_idx, as
\* <<slot, port>>
water_key(counter_idx) ==
    <<((counter_idx - 1) \div 2) + 1, IF counter_idx % 2 = 1 THEN 1 ELSE 2>>

\* the key of the counter's slot with the ports exchanged
counter_water_key_ports_swapped(counter_index) ==
    <<((counter_index - 1) \div 2) + 1, IF counter_index % 2 = 1 THEN 2 ELSE 1>>

\* number.py _counter_water_key: the snapshot key the calibration entity of
\* counter counter_index reads, as <<slot, port>>
counter_water_key(counter_index) ==
    <<((counter_index - 1) \div 2) + 1, IF counter_index % 2 = 1 THEN 1 ELSE 2>>

\* the loop over the pairs of water_regs: each pair is stored under its key,
\* a later pair replacing an earlier one of the same key
water_counters(water_regs) ==
    LET n == Len(water_regs) \div 2
        last(key) == CHOOSE c \in 1..n :
                        /\ water_key(c) = key
                        /\ \A d \in 1..n : water_key(d) = key => d <= c
    IN  [key \in {water_key(c) : c \in 1..n} |->
            water_value(water_regs[2 * last(key) - 1], water_regs[2 * last(key)])]

Decode(reg0_to_6, wireless_params, wireless, water_regs, counter_settings) ==
    LET alarm_mode == reg0_to_6[REG_ALARM_MODE + 1]
        line_cfg_1_2 == reg0_to_6[REG_LINE_CFG_1_2 + 1]
        line_cfg_3_4 == reg0_to_6[REG_LINE_CFG_3_4 + 1]
        leak_sensor_raw == reg0_to_6[REG_LEAK_SENSOR_RAW + 1]
        relay_cfg == reg0_to_6[REG_RELAY_CFG + 1]
        modbus_cfg == reg0_to_6[REG_MODBUS_CFG + 1]
        wireless_count == reg0_to_6[REG_WIRELESS_SENSOR_COUNT + 1]
        types == line_types(line_cfg_1_2, line_cfg_3_4)
        groups == line_groups(line_cfg_1_2, line_cfg_3_4)
        wp == IF wireless_count > 0 THEN wireless_params ELSE <<>>
        wr == IF wireless_count > 0 THEN wireless ELSE <<>>
        enabled == [idx \in 1..Len(counter_settings) |->
                        AndN(counter_settings[idx], 1) # 0]
    IN  [ alarm_mode_raw |-> alarm_mode,
          line_cfg_1_2_raw |-> line_cfg_1_2,
          line_cfg_3_4_raw |-> line_cfg_3_4,
          leak_sensor_raw |-> leak_sensor_raw,
          wireless_sensor_count |-> wireless_count,
          detected_leak_lines |-> detected_leak(leak_sensor_raw, types, groups),
          dual_zone_mode |-> AndN(alarm_mode, BIT_DUAL_ZONE_MODE) # 0,
          relay_cfg_raw |-> relay_cfg,
          modbus_cfg_raw |-> modbus_cfg,
          modbus_address |-> Field(modbus_cfg, 8, 8),
          modbus_baud_code |-> Field(modbus_cfg, 0, 8),
          relay_alarm_group |-> Field(relay_cfg, 0, 2),
          relay_close_group |-> Field(relay_cfg, 2, 2),
          line_type |-> types,
          line_group |-> groups,
          wireless_cfg_raw |-> wp,
          wireless_group |-> [i \in 1..Len(wp) |-> Field(wp[i], 0, 8)],
          wireless_raw |-> wr,
          wireless_alarm |-> [i \in 1..Len(wr) |-> Field(wr[i], 0, 1) = 1],
          wireless_category |-> [i \in 1..Len(wr) |-> Field(wr[i], 1, 1) = 1],
          wireless_loss |-> [i \in 1..Len(wr) |-> Field(wr[i], 2, 1) = 1],
          wireless_signal |-> [i \in 1..Len(wr) |-> Field(wr[i], 3, 3) * 25],
          wireless_battery |-> [i \in 1..Len(wr) |-> Field(wr[i], 8, 8)],
          water_counter |-> water_counters(water_regs),
          counter_cfg_raw |-> counter_settings,
          counter_step |-> [idx \in 1..Len(counter_settings) |->
                                Field(counter_settings[idx], 8, 8)],
          counter_namur_error |-> [idx \in 1..Len(counter_settings) |->
                                Field(counter_settings[idx], 2, 2)],
          counter_connection_type |-> [idx \in 1..Len(counter_settings) |->
                                Field(counter_settings[idx], 1, 1)],
          counter_enabled |-> enabled,
          counter_status_code |-> [idx \in 1..Len(counter_settings) |->
                                Field(counter_settings[idx], 0, 4)],
          detected_counters |-> Cardinality({idx \in 1..8 :
                                idx \in DOMAIN enabled /\ enabled[idx]}) ]

\* self.data.get(data_key): None when the snapshot has no such key
DataGet(d, key) ==
    CASE key[1] = "alarm_mode_raw" -> d.snap.alarm_mode_raw
      [] key[1] = "line_cfg_1_2_raw" -> d.snap.line_cfg_1_2_raw
      [] key[1] = "line_cfg_3_4_raw" -> d.snap.line_cfg_3_4_raw
      [] key[1] = "relay_cfg_raw" -> d.snap.relay_cfg_raw
      [] key[1] = "modbus_cfg_raw" -> d.snap.modbus_cfg_raw
      [] key[1] = "counter_cfg_raw" ->
            IF key[2] \in DOMAIN d.snap.counter_cfg_raw
            THEN d.snap.counter_cfg_raw[key[2]] ELSE NoValue
      [] key[1] = "wireless_cfg_raw" ->
            IF key[2] \in DOMAIN d.snap.wireless_cfg_raw
            THEN d.snap.wireless_cfg_raw[key[2]] ELSE NoValue
      [] OTHER -> NoValue

\* the session-derived lists, properties of the coordinator over self.data
\* installed_counters: range(1, 9) with no snapshot, else the idx of 1..8
\* with counter_<idx>_enabled, in ascending order
installed_counters(d) ==
    IF d = NoData THEN [i \in 1..8 |-> i]
    ELSE SelectSeq([i \in 1..8 |-> i],
                   LAMBDA idx : idx \in DOMAIN d.snap.counter_enabled
                                /\ d.snap.counter_enabled[idx])

\* the reported count taken as the number of installed sensors
installed_wireless_sensors_uncapped(d) ==
    IF d = NoData THEN <<>>
    ELSE [i \in 1..Max(0, d.snap.wireless_sensor_count) |-> i]

\* installed_wireless_sensors: range(1, count + 1) with count =
\* max(0, min(50, wireless_sensor_count))
installed_wireless_sensors(d) ==
    IF d = NoData THEN <<>>
    ELSE [i \in 1..Max(0, Min(WIRELESS_CAP, d.snap.wireless_sensor_count)) |-> i]

\* detected_leak_lines: range(1, count + 1) with count =
\* max(1, min(4, detected_leak_lines)); [1] with no snapshot
leak_lines(d) ==
    IF d = NoData THEN <<1>>
    ELSE [i \in 1..Max(1, Min(4, d.snap.detected_leak_lines)) |-> i]

(***************************************************************************)
(* Operations and their arguments.                                         *)
(***************************************************************************)
NoTransform == [t |-> "none", m |-> 0, s |-> 0, w |-> 0, v |-> 0]
SetBits(mask) == [NoTransform EXCEPT !.t = "set", !.m = mask]
ClearBits(mask) == [NoTransform EXCEPT !.t = "clear", !.m = mask]
ZoneOneOn == [NoTransform EXCEPT !.t = "zone_1_on"]
ZoneOneOff == [NoTransform EXCEPT !.t = "zone_1_off"]
\* a caller's transform whose result can leave the 16-bit range: current + delta
Offset(delta) == [NoTransform EXCEPT !.t = "offset", !.v = delta]
MaskTransform(shift, width, value) ==
    [NoTransform EXCEPT !.t = "mask", !.s = shift, !.w = width, !.v = value]

\* transform(int(current)) for the transform functions the entities pass
ApplyTransform(tf, current) ==
    CASE tf.t = "set" -> set_bits(current, tf.m)
      [] tf.t = "clear" -> clear_bits(current, tf.m)
      [] tf.t = "zone_1_on" -> toggle_zone_1_on(current)
      [] tf.t = "zone_1_off" -> toggle_zone_1_off(current)
      [] tf.t = "mask" -> mask_transform(tf.s, tf.w, tf.v, current)
      [] tf.t = "offset" -> current + tf.v
      [] OTHER -> current

NoOp == [kind |-> "none", address |-> 0, key |-> NoKey, tf |-> NoTransform,
         index |-> 0, arg |-> 0, half |-> 0]
\* a poll cycle, the scheduled tick or the refresh requested by a write; c
\* numbers the cycle
PollOp(kind, c) == [NoOp EXCEPT !.kind = kind, !.arg = c]
TransformOp(address, key, tf) ==
    [NoOp EXCEPT !.kind = "transform", !.address = address, !.key = key, !.tf = tf]

\* async_write_alarm_mode(transform)
AlarmModeOp(tf) == TransformOp(REG_ALARM_MODE, <<"alarm_mode_raw", 0>>, tf)

\* the alarm/mode switches the callers operate in this model
AlarmTransforms ==
    { SetBits(BIT_DUAL_ZONE_MODE), ClearBits(BIT_DUAL_ZONE_MODE),
      ZoneOneOn, ZoneOneOff, SetBits(BIT_FLOOR_WASHING_MODE) }

\* switch.py: the counter's enabled switch turned off, current & ~0x1 on the
\* counter's settings word
CounterEnabledOff(idx) ==
    TransformOp(123 + (idx - 1), <<"counter_cfg_raw", idx>>, ClearBits(1))

\* switch.py: the counter's enabled switch turned on, current | 0x1 on the
\* counter's settings word
CounterEnabledOn(idx) ==
    TransformOp(123 + (idx - 1), <<"counter_cfg_raw", idx>>, SetBits(1))

\* switch.py BASE_DESCRIPTIONS and add_new_sensor_switch: the masks of the
\* alarm/mode switches built on set_bits / clear_bits; a switch's bit is one
\* of the sixteen, the zone 1 + 2 switch has the two-bit MASK_ZONE_BOTH
SwitchMasks ==
    {BIT_FLOOR_WASHING_MODE, 128, BIT_ZONE_2, BIT_DUAL_ZONE_MODE, 32768,
     MASK_ZONE_BOTH}

\* async_turn_on / async_turn_off of every switch entity: the alarm/mode
\* switches through async_write_alarm_mode, the counter switches through
\* async_write_register_transform on the counter's settings word
SwitchOps ==
    {AlarmModeOp(SetBits(mask)) : mask \in SwitchMasks}
        \cup {AlarmModeOp(ClearBits(mask)) : mask \in SwitchMasks}
        \cup {AlarmModeOp(ZoneOneOn), AlarmModeOp(ZoneOneOff)}
        \cup {CounterEnabledOn(idx) : idx \in {1, 8}}
        \cup {CounterEnabledOff(idx) : idx \in {1, 8}}

\* select.py: the counter's connection type set to code, _mask_transform(1, 1,
\* code) on the same word
CounterConnection(idx, code) ==
    TransformOp(123 + (idx - 1), <<"counter_cfg_raw", idx>>, MaskTransform(1, 1, code))

\* select.py _line_type_desc / _line_group_desc: the register, snapshot key
\* and field of a line's input type and valve group
line_reg(line) == IF line <= 2 THEN 1 ELSE 2
line_data_key(line) ==
    IF line <= 2 THEN <<"line_cfg_1_2_raw", 0>> ELSE <<"line_cfg_3_4_raw", 0>>
line_type_shift(line) == IF line \in {1, 3} THEN 10 ELSE 2
line_group_shift(line) == IF line \in {1, 3} THEN 8 ELSE 0

LineType(line, code) ==
    TransformOp(line_reg(line), line_data_key(line),
                MaskTransform(line_type_shift(line), 2, code))
LineGroup(line, code) ==
    TransformOp(line_reg(line), line_data_key(line),
                MaskTransform(line_group_shift(line), 2, code))

\* select.py _wireless_group_desc: the group of wireless sensor idx set to
\* code, _mask_transform(0, 8, code) on the sensor's params word
WirelessGroup(idx, code) ==
    TransformOp(7 + (idx - 1), <<"wireless_cfg_raw", idx>>, MaskTransform(0, 8, code))

\* select.py _counter_step_desc: the counter's step select set to the option
\* of code (a key of STEP_OPTIONS), _mask_transform(8, 8, code) on the
\* counter's settings word
CounterStepSelect(idx, code) ==
    TransformOp(123 + (idx - 1), <<"counter_cfg_raw", idx>>, MaskTransform(8, 8, code))

\* select.py _relay_desc: the relay group at shift (0 on alarm, 2 on valve
\* close) set to code, _mask_transform(shift, 2, code) on register 4
RelayGroup(shift, code) ==
    TransformOp(4, <<"relay_cfg_raw", 0>>, MaskTransform(shift, 2, code))

\* select.py _modbus_baud_desc: the baud code, _mask_transform(0, 8, code) on
\* register 5
ModbusBaud(code) ==
    TransformOp(5, <<"modbus_cfg_raw", 0>>, MaskTransform(0, 8, code))

\* the select entities backed by a bit field, as <<entity, index>>: the type
\* and group of lines 1..4, the two relay groups, the baud code, the
\* connection type of a counter and the group of a wireless sensor
Selects ==
    ({"line_type", "line_group"} \X (1..4))
        \cup {<<"relay_alarm_group", 0>>, <<"relay_close_group", 0>>,
              <<"modbus_baud", 0>>, <<"counter_connection_type", 1>>,
              <<"counter_connection_type", 8>>, <<"wireless_group", 1>>}

\* the codes a select's transform is given: the keys of its options map
\* (LINE_TYPE_OPTIONS, GROUP_OPTIONS, CONNECTION_OPTIONS, BAUD_OPTIONS), and
\* with them the other codes of a 2-bit field and the highest 8-bit code
SelectCodes(sel) ==
    CASE sel[1] = "counter_connection_type" -> 0..1
      [] sel[1] = "modbus_baud" -> (0..10) \cup {255}
      [] sel[1] = "wireless_group" -> (0..3) \cup {255}
      [] OTHER -> 0..3

\* async_select_option of select sel with the option of code
SelectOp(sel, code) ==
    CASE sel[1] = "line_type" -> LineType(sel[2], code)
      [] sel[1] = "line_group" -> LineGroup(sel[2], code)
      [] sel[1] = "relay_alarm_group" -> RelayGroup(0, code)
      [] sel[1] = "relay_close_group" -> RelayGroup(2, code)
      [] sel[1] = "modbus_baud" -> ModbusBaud(code)
      [] sel[1] = "counter_connection_type" -> CounterConnection(sel[2], code)
      [] sel[1] = "wireless_group" -> WirelessGroup(sel[2], code)

\* the snapshot field the poll decodes for the select's bit field
SelectDecoded(sel, snap) ==
    CASE sel[1] = "line_type" -> snap.line_type[sel[2]]
      [] sel[1] = "line_group" -> snap.line_group[sel[2]]
      [] sel[1] = "relay_alarm_group" -> snap.relay_alarm_group
      [] sel[1] = "relay_close_group" -> snap.relay_close_group
      [] sel[1] = "modbus_baud" -> snap.modbus_baud_code
      [] sel[1] = "counter_connection_type" -> snap.counter_connection_type[sel[2]]
      [] sel[1] = "wireless_group" -> snap.wireless_group[sel[2]]

\* the counter entities the callers operate in this model
CounterTransforms == {CounterEnabledOff(1), CounterConnection(1, 1)}

NoLocals == [lk |-> 0, current |-> NoValue, new_value |-> NoValue,
             reg0_to_6 |-> <<>>, wireless_params |-> <<>>, wireless |-> <<>>,
             water_regs |-> <<>>, tags |-> <<>>]

Event(e, address, n) == <<e, address, n>>

(***************************************************************************)
(* The session lock: asyncio.Lock, created on first use.                   *)
(***************************************************************************)
NewLockId(cur) == (cur % MaxLocks) + 1

\* a new Lock on every call, whether or not one exists
ensure_lock_always_new(cur) == NewLockId(cur)

\* if self._lock is None: self._lock = Lock()
ensure_lock(cur) == IF cur = 0 THEN NewLockId(cur) ELSE cur

\* where an operation continues once it holds the lock
Entry(o) ==
    CASE o.kind \in {"tick", "refresh"} -> "lead"
      [] o.kind \in {"transform", "step"} -> "current"
      [] o.kind = "calibration" -> "cwrite"
      [] OTHER -> "idle"

\* Lock.acquire(): taken at once when free and nobody waits, else queued
CanTake(L) == holder[L] = NoTask /\ waiters[L] = <<>>

\* Lock.release(): the lock goes to the longest-waiting task, if any
NextHolder(L) == IF waiters[L] # <<>> THEN Head(waiters[L]) ELSE NoTask

\* the poll reading its registers without taking the lock
LockedKindsWritesOnly == {"transform", "step", "calibration"}

\* the operations whose transport calls run inside async with self._lock
LockedKinds == {"tick", "refresh", "transform", "step", "calibration"}

Guarded(o) == o.kind \in LockedKinds

Acquired(L) == Event("acquire", L, 0)

\* task p leaves its critical section on lock L and the operation ends; its
\* event log gets before, the release, then after
Release(p, L, before, after) ==
    LET nxt == IF Guarded(op[p]) THEN NextHolder(L) ELSE NoTask
    IN  /\ holder' = IF Guarded(op[p]) THEN [holder EXCEPT ![L] = nxt] ELSE holder
        /\ waiters' = IF Guarded(op[p]) /\ waiters[L] # <<>>
                      THEN [waiters EXCEPT ![L] = Tail(waiters[L])] ELSE waiters
        /\ pc' = [q \in Tasks |->
                    IF q = p THEN "done"
                    ELSE IF q = nxt THEN Entry(op[q]) ELSE pc[q]]
        /\ ev' = [q \in Tasks |->
                    IF q = p THEN (ev[p] \o before \o <<Event("release", L, 0)>> \o after)
                    ELSE IF q = nxt THEN Append(ev[q], Acquired(L))
                    ELSE ev[q]]

\* a call of the coordinator runs in a new task: the free task with the
\* lowest number, as tasks differ in nothing else
CanStart(p) ==
    /\ pc[p] = "idle"
    /\ \A q \in Tasks : q < p => pc[q] # "idle"
    /\ nOps < MaxOps

\* task p begins operation o: async with self._lock
Begin(p, o) ==
    LET L == ensure_lock(lockObj)
    IN  /\ CanStart(p)
        /\ nOps' = nOps + 1
        /\ lockObj' = L
        /\ op' = [op EXCEPT ![p] = o]
        /\ loc' = [loc EXCEPT ![p] = [NoLocals EXCEPT !.lk = L]]
        /\ outcome' = [outcome EXCEPT ![p] = "running"]
        /\ IF ~Guarded(o)
           THEN /\ pc' = [pc EXCEPT ![p] = Entry(o)]
                /\ ev' = [ev EXCEPT ![p] = <<>>]
                /\ UNCHANGED <<holder, waiters>>
           ELSE IF CanTake(L)
           THEN /\ holder' = [holder EXCEPT ![L] = p]
                /\ pc' = [pc EXCEPT ![p] = Entry(o)]
                /\ ev' = [ev EXCEPT ![p] = <<Acquired(L)>>]
                /\ UNCHANGED waiters
           ELSE /\ waiters' = [waiters EXCEPT ![L] = Append(@, p)]
                /\ pc' = [pc EXCEPT ![p] = "wait"]
                /\ ev' = [ev EXCEPT ![p] = <<>>]
                /\ UNCHANGED holder

(***************************************************************************)
(* The transport: _ensure_connected and one pymodbus call.                 *)
(***************************************************************************)
\* _call_with_slave: the unit identifier is passed as device_id, slave or
\* unit, each first with keyword arguments only and then with the positional
\* arguments as well, in this order
Conventions ==
    <<<<"device_id", FALSE>>, <<"device_id", TRUE>>,
      <<"slave", FALSE>>, <<"slave", TRUE>>,
      <<"unit", FALSE>>, <<"unit", TRUE>>>>

NoConvention == 0

\* AsyncModbusTcpClient(host, port, timeout): accepts is the convention its
\* methods take without a TypeError (NoConvention when none), tried the
\* conventions of the latest _call_with_slave, closed whether close() was
\* called
NewClient(accepts) == [accepts |-> accepts, tried |-> <<>>, closed |-> FALSE]

\* all six conventions attempted whatever the outcome of each
call_with_slave_all(accepts) == Conventions

\* the conventions one _call_with_slave goes through: every call starts at
\* the first and stops at the one that raises no TypeError
call_with_slave(accepts) ==
    IF accepts = NoConvention THEN Conventions ELSE SubSeq(Conventions, 1, accepts)

\* how one _read_holding / _write_register / _write_registers call can end
CallOutcomes ==
    (IF client.accepts = NoConvention THEN {"type_error"} ELSE {"ok"}) \cup
    (IF nFaults < MaxFaults
     THEN (IF client.accepts = NoConvention THEN {} ELSE {"raised", "error_response"})
          \cup (IF connected THEN {} ELSE {"connect_failed"})
     ELSE {})

Faulty(out) == out \notin {"ok", "type_error"}

\* the client after the call: _call_with_slave is reached unless the connect
\* failed
ClientAfter(out) ==
    IF out = "connect_failed" THEN client
    ELSE [client EXCEPT !.tried = call_with_slave(client.accepts)]

\* the client dropped whenever the call did not succeed
ConnectedAfterOkOnly(out) == out = "ok"

\* _ensure_connected: the client is connected unless connect() failed
ConnectedAfter(out) == out # "connect_failed"

\* what a failed call leaves in the event log: no register call is issued
\* when the connect failed
FailEvents(out, call, address, n) ==
    IF out \in {"connect_failed", "type_error"}
    THEN <<Event(out, address, n), Event("error", address, n)>>
    ELSE <<Event(call, address, n), Event("error", address, n)>>

\* the error ends the operation with the lock still held
FailedKeepsLock(p, out, call, address, n) ==
    /\ pc' = [pc EXCEPT ![p] = "done"]
    /\ ev' = [ev EXCEPT ![p] = @ \o FailEvents(out, call, address, n)]
    /\ outcome' = [outcome EXCEPT ![p] = "failed"]
    /\ loc' = [loc EXCEPT ![p] = NoLocals]
    /\ UNCHANGED <<holder, waiters>>

\* the exception leaves the async with block: the lock is released and the
\* operation ends with the error
Failed(p, out, call, address, n) ==
    /\ Release(p, loc[p].lk, FailEvents(out, call, address, n), <<>>)
    /\ outcome' = [outcome EXCEPT ![p] = "failed"]
    /\ loc' = [loc EXCEPT ![p] = NoLocals]

(***************************************************************************)
(* The poll: _async_update_data.                                           *)
(***************************************************************************)
\* the words read before the failure written into the old snapshot
FailedPollDataPartial(old, l) ==
    IF old # NoData /\ l.reg0_to_6 # <<>>
    THEN [old EXCEPT !.snap.alarm_mode_raw = l.reg0_to_6[REG_ALARM_MODE + 1]]
    ELSE old

\* self.data after a poll cycle that raised UpdateFailed
FailedPollData(old, l) == old

\* the new snapshot written over the old one, a derived field left behind
PublishedDataInPlace(old, snap, tags) ==
    [empty |-> FALSE,
     snap |-> IF old = NoData THEN snap
              ELSE [snap EXCEPT !.detected_counters = old.snap.detected_counters],
     src |-> tags]

\* self.data after a poll cycle that returned its snapshot
PublishedData(old, snap, tags) == [empty |-> FALSE, snap |-> snap, src |-> tags]

Tag(p) == <<op[p].arg, writeSeq>>

\* the failed read logged and the poll left where it is, to read again
PollFailedReadsAgain(p, out, address, n) ==
    /\ ev' = [ev EXCEPT ![p] = @ \o FailEvents(out, "read", address, n)]
    /\ UNCHANGED <<holder, waiters, pc, outcome, loc, data>>

PollFailed(p, out, address, n) ==
    /\ Failed(p, out, "read", address, n)
    /\ data' = FailedPollData(data, loc[p])

\* one _read_holding of the poll that is not its last
PollBlock(p, here, address, count, newloc, next) ==
    /\ pc[p] = here
    /\ \E out \in CallOutcomes :
        /\ connected' = ConnectedAfter(out)
        /\ client' = ClientAfter(out)
        /\ nFaults' = nFaults + (IF Faulty(out) THEN 1 ELSE 0)
        /\ IF out = "ok"
           THEN /\ loc' = [loc EXCEPT ![p] = newloc]
                /\ pc' = [pc EXCEPT ![p] = next]
                /\ ev' = [ev EXCEPT ![p] = Append(@, Event("read", address, count))]
                /\ UNCHANGED <<holder, waiters, outcome, data>>
           ELSE PollFailed(p, out, address, count)
    /\ UNCHANGED <<dev, lockObj, refreshPending, op, nOps, writeSeq>>

StartTick(p) ==
    /\ Begin(p, PollOp("tick", nOps + 1))
    /\ UNCHANGED <<dev, connected, client, data, refreshPending, nFaults, writeSeq>>

StartRefresh(p) ==
    /\ refreshPending
    /\ Begin(p, PollOp("refresh", nOps + 1))
    /\ refreshPending' = FALSE
    /\ UNCHANGED <<dev, connected, client, data, nFaults, writeSeq>>

\* the reported count taken as it is
WirelessCountUncapped(reg0_to_6) ==
    Max(0, reg0_to_6[REG_WIRELESS_SENSOR_COUNT + 1])

\* wireless_count = max(0, min(50, reg0_to_6[REG_WIRELESS_SENSOR_COUNT]))
WirelessCount(reg0_to_6) ==
    Max(0, Min(WIRELESS_CAP, reg0_to_6[REG_WIRELESS_SENSOR_COUNT + 1]))

\* the leading read followed by the water counters whatever the count is
PollLeadThenWater(p) ==
    PollBlock(p, "lead", REG_ALARM_MODE, LEAD_BLOCK_COUNT,
              [loc[p] EXCEPT !.reg0_to_6 = ReadRegs(REG_ALARM_MODE, LEAD_BLOCK_COUNT),
                             !.tags = Append(@, Tag(p))],
              "water")

PollLead(p) ==
    LET words == ReadRegs(REG_ALARM_MODE, LEAD_BLOCK_COUNT)
    IN  PollBlock(p, "lead", REG_ALARM_MODE, LEAD_BLOCK_COUNT,
                  [loc[p] EXCEPT !.reg0_to_6 = words, !.tags = Append(@, Tag(p))],
                  IF words[REG_WIRELESS_SENSOR_COUNT + 1] > 0
                  THEN "wparams" ELSE "water")

PollWirelessParams(p) ==
    LET n == WirelessCount(loc[p].reg0_to_6)
    IN  PollBlock(p, "wparams", REG_WIRELESS_PARAMS_START, n,
                  [loc[p] EXCEPT !.wireless_params = ReadRegs(REG_WIRELESS_PARAMS_START, n),
                                 !.tags = Append(@, Tag(p))],
                  "wraw")

PollWireless(p) ==
    LET n == WirelessCount(loc[p].reg0_to_6)
    IN  PollBlock(p, "wraw", REG_WIRELESS_SENSORS_START, n,
                  [loc[p] EXCEPT !.wireless = ReadRegs(REG_WIRELESS_SENSORS_START, n),
                                 !.tags = Append(@, Tag(p))],
                  "water")

PollWater(p) ==
    PollBlock(p, "water", REG_WATER_COUNTERS_START, REG_WATER_COUNTERS_REG_COUNT,
              [loc[p] EXCEPT !.water_regs =
                                ReadRegs(REG_WATER_COUNTERS_START, REG_WATER_COUNTERS_REG_COUNT),
                             !.tags = Append(@, Tag(p))],
              "settings")

\* the last read; on success the lock is released, the words are decoded and
\* the returned snapshot replaces self.data, with no suspension in between
PollSettings(p) ==
    /\ pc[p] = "settings"
    /\ \E out \in CallOutcomes :
        /\ connected' = ConnectedAfter(out)
        /\ client' = ClientAfter(out)
        /\ nFaults' = nFaults + (IF Faulty(out) THEN 1 ELSE 0)
        /\ IF out = "ok"
           THEN LET l == loc[p]
                    counter_settings ==
                        ReadRegs(REG_COUNTER_SETTINGS_START, REG_COUNTER_SETTINGS_COUNT)
                IN  /\ Release(p, l.lk,
                               <<Event("read", REG_COUNTER_SETTINGS_START,
                                       REG_COUNTER_SETTINGS_COUNT)>>,
                               <<Event("publish", 0, 0)>>)
                    /\ data' = PublishedData(data,
                                  Decode(l.reg0_to_6, l.wireless_params, l.wireless,
                                         l.water_regs, counter_settings),
                                  Append(l.tags, Tag(p)))
                    /\ outcome' = [outcome EXCEPT ![p] = "published"]
                    /\ loc' = [loc EXCEPT ![p] = NoLocals]
           ELSE PollFailed(p, out, REG_COUNTER_SETTINGS_START, REG_COUNTER_SETTINGS_COUNT)
    /\ UNCHANGED <<dev, lockObj, refreshPending, op, nOps, writeSeq>>

(***************************************************************************)
(* The writes: async_write_register_transform, async_write_counter_step    *)
(* and async_write_counter_calibration.                                    *)
(***************************************************************************)
\* the controller's registers after a write of values at address
WriteRegs(address, values) ==
    [a \in DOMAIN dev |->
        IF a >= address /\ a < address + Len(values)
        THEN values[a - address + 1] ELSE dev[a]]

\* how a write call can end; a raised error may come after the controller
\* has taken the write
WriteOutcomes ==
    CallOutcomes \cup (IF nFaults < MaxFaults /\ client.accepts # NoConvention
                       THEN {"raised_applied"} ELSE {})

\* a tie rounded away from zero (the values here are not negative when it
\* matters: a negative product is raised to 0 afterwards in either case)
py_round_half_up(k, half) == IF half = 0 THEN k ELSE k + 1

\* The product float(value_m3) * 1000 is given as k + half / 2 with k an
\* integer and half 0 or 1: the products that are whole or fall on a tie.
\* int(round(x)): Python rounds a tie to the even neighbour
py_round(k, half) ==
    IF half = 0 THEN k
    ELSE IF k % 2 = 0 THEN k ELSE k + 1

INT32_MAX == 2147483647

\* the lower clamp left out
calibration_scaled_no_floor(k, half) ==
    IF k >= INT32_MAX THEN INT32_MAX
    ELSE Min(py_round(k, half), INT32_MAX)

\* scaled = min(max(0, int(round(float(value_m3) * 1000))), 0x7FFFFFFF); a
\* product of 0x7FFFFFFF or more is capped before it is rounded, as the
\* integers here have 32 bits
calibration_scaled(k, half) ==
    IF k >= INT32_MAX THEN INT32_MAX
    ELSE Min(Max(0, py_round(k, half)), INT32_MAX)

\* the low word first
calibration_words_low_first(k, half) ==
    LET scaled == calibration_scaled(k, half)
    IN  <<scaled % 65536, (scaled \div 65536) % 65536>>

\* hi = (scaled >> 16) & 0xFFFF, lo = scaled & 0xFFFF
calibration_words(k, half) ==
    LET scaled == calibration_scaled(k, half)
    IN  <<(scaled \div 65536) % 65536, scaled % 65536>>

\* the step write with the snapshot key of the next counter
StepOpNextKey(counter_index, step_value) ==
    [NoOp EXCEPT !.kind = "step",
                 !.address = REG_COUNTER_SETTINGS_START + (counter_index - 1),
                 !.key = <<"counter_cfg_raw", counter_index + 1>>,
                 !.index = counter_index, !.arg = step_value]

StepOp(counter_index, step_value) ==
    [NoOp EXCEPT !.kind = "step",
                 !.address = REG_COUNTER_SETTINGS_START + (counter_index - 1),
                 !.key = <<"counter_cfg_raw", counter_index>>,
                 !.index = counter_index, !.arg = step_value]

CalibrationOp(counter_index, k, half) ==
    [NoOp EXCEPT !.kind = "calibration",
                 !.address = REG_WATER_COUNTERS_START + (counter_index - 1) * 2,
                 !.index = counter_index, !.arg = k, !.half = half]

\* the step value passed on unchecked
StepInputValidIndexOnly(counter_index, step_value) ==
    1 <= counter_index /\ counter_index <= 8

StepInputValid(counter_index, step_value) ==
    /\ 1 <= counter_index /\ counter_index <= 8
    /\ step_value \in {1, 10, 100}

CalibrationInputValid(counter_index) ==
    1 <= counter_index /\ counter_index <= 8

\* raise UpdateFailed before async with: the lock object exists by then
Rejected(p, o) ==
    /\ CanStart(p)
    /\ nOps' = nOps + 1
    /\ lockObj' = ensure_lock(lockObj)
    /\ op' = [op EXCEPT ![p] = o]
    /\ outcome' = [outcome EXCEPT ![p] = "rejected"]
    /\ ev' = [ev EXCEPT ![p] = <<Event("error", o.address, 0)>>]
    /\ pc' = [pc EXCEPT ![p] = "done"]
    /\ UNCHANGED <<holder, waiters, loc>>

StartTransform(p, address, key, tf) ==
    /\ Begin(p, TransformOp(address, key, tf))
    /\ UNCHANGED <<dev, connected, client, data, refreshPending, nFaults, writeSeq>>

StartCounterStep(p, counter_index, step_value) ==
    /\ IF StepInputValid(counter_index, step_value)
       THEN Begin(p, StepOp(counter_index, step_value))
       ELSE Rejected(p, StepOp(counter_index, step_value))
    /\ UNCHANGED <<dev, connected, client, data, refreshPending, nFaults, writeSeq>>

StartCalibration(p, counter_index, k, half) ==
    /\ IF CalibrationInputValid(counter_index)
       THEN Begin(p, CalibrationOp(counter_index, k, half))
       ELSE Rejected(p, CalibrationOp(counter_index, k, half))
    /\ UNCHANGED <<dev, connected, client, data, refreshPending, nFaults, writeSeq>>

\* the snapshot never used
CachedCurrentNone(d, key) == NoValue

\* current = self.data.get(data_key) if (self.data and data_key) else None
CachedCurrent(d, key) ==
    IF d # NoData /\ key # NoKey THEN DataGet(d, key) ELSE NoValue

\* the step write with the low byte of the current word dropped
NewValueStepOnly(o, current) ==
    IF o.kind = "transform"
    THEN Max(0, Min(WORD_MAX, ApplyTransform(o.tf, current)))
    ELSE AndN(o.arg, 255) * 256

\* the transform's result written as it is
NewValueUnclamped(o, current) ==
    IF o.kind = "transform"
    THEN ApplyTransform(o.tf, current)
    ELSE OrN(AndN(current, 255), AndN(o.arg, 255) * 256)

\* the value to write, from the current one
NewValue(o, current) ==
    IF o.kind = "transform"
    THEN Max(0, Min(WORD_MAX, ApplyTransform(o.tf, current)))
    ELSE OrN(AndN(current, 255), AndN(o.arg, 255) * 256)

\* the write issued whether or not the value changes
AfterCurrentAlwaysWrite(p, current, how) ==
    /\ loc' = [loc EXCEPT ![p].current = current,
                          ![p].new_value = NewValue(op[p], current)]
    /\ pc' = [pc EXCEPT ![p] = "write"]
    /\ ev' = [ev EXCEPT ![p] = Append(@, how)]
    /\ UNCHANGED <<holder, waiters, outcome>>

\* after current is known: return at once when nothing changes, else go on
\* to the write
AfterCurrent(p, current, how) ==
    LET new_value == NewValue(op[p], current)
    IN  IF new_value = current
        THEN /\ Release(p, loc[p].lk, <<how>>, <<>>)
             /\ outcome' = [outcome EXCEPT ![p] = "noop"]
             /\ loc' = [loc EXCEPT ![p] = NoLocals]
        ELSE /\ loc' = [loc EXCEPT ![p].current = current, ![p].new_value = new_value]
             /\ pc' = [pc EXCEPT ![p] = "write"]
             /\ ev' = [ev EXCEPT ![p] = Append(@, how)]
             /\ UNCHANGED <<holder, waiters, outcome>>

\* the current value is in the published snapshot: no transport call
CurrentFromSnapshot(p) ==
    /\ pc[p] = "current"
    /\ CachedCurrent(data, op[p].key) # NoValue
    /\ AfterCurrent(p, CachedCurrent(data, op[p].key),
                    Event("cached", op[p].address, CachedCurrent(data, op[p].key)))
    /\ UNCHANGED <<dev, connected, client, lockObj, data, refreshPending, op, nOps,
                   nFaults, writeSeq>>

\* current = (await self._read_holding(address, 1))[0]
CurrentFromRead(p) ==
    /\ pc[p] = "current"
    /\ CachedCurrent(data, op[p].key) = NoValue
    /\ \E out \in CallOutcomes :
        /\ connected' = ConnectedAfter(out)
        /\ client' = ClientAfter(out)
        /\ nFaults' = nFaults + (IF Faulty(out) THEN 1 ELSE 0)
        /\ IF out = "ok"
           THEN AfterCurrent(p, ReadRegs(op[p].address, 1)[1],
                             Event("read", op[p].address, 1))
           ELSE Failed(p, out, "read", op[p].address, 1)
    /\ UNCHANGED <<dev, lockObj, data, refreshPending, op, nOps, writeSeq>>

\* the refresh requested on every exit of the write, as from a finally block
RefreshAlways(out, pending) == TRUE

\* whether a refresh is pending after a write call that ended with out:
\* the write ends with no refresh requested
RefreshNever(out, pending) == pending

\* async_request_refresh() follows the async with block
RefreshAfter(out, pending) == IF out = "ok" THEN TRUE ELSE pending

\* the refresh requested inside the async with block
WriteDoneRefreshInside(p, address, n) ==
    /\ Release(p, loc[p].lk,
               <<Event("write", address, n), Event("refresh", 0, 0)>>, <<>>)
    /\ outcome' = [outcome EXCEPT ![p] = "written"]
    /\ loc' = [loc EXCEPT ![p] = NoLocals]

\* the events of a write that went through: the write, the release, and
\* then the refresh request
WriteDone(p, address, n) ==
    /\ Release(p, loc[p].lk, <<Event("write", address, n)>>,
               <<Event("refresh", 0, 0)>>)
    /\ outcome' = [outcome EXCEPT ![p] = "written"]
    /\ loc' = [loc EXCEPT ![p] = NoLocals]

\* the written word stored in the snapshot as well
DataAfterWriteCached(old, address, values) ==
    IF old # NoData /\ address = REG_ALARM_MODE
    THEN [old EXCEPT !.snap.alarm_mode_raw = values[1]]
    ELSE old

\* self.data after a write call: the write paths assign nothing to it
DataAfterWrite(old, address, values) == old

\* one write call under the lock, of values at address
WriteCall(p, here, call, address, values, n) ==
    /\ pc[p] = here
    /\ \E out \in WriteOutcomes :
        /\ connected' = ConnectedAfter(out)
        /\ client' = ClientAfter(out)
        /\ nFaults' = nFaults + (IF Faulty(out) THEN 1 ELSE 0)
        /\ dev' = IF out \in {"ok", "raised_applied"}
                  THEN WriteRegs(address, values) ELSE dev
        /\ writeSeq' = IF out \in {"ok", "raised_applied"}
                       THEN writeSeq + 1 ELSE writeSeq
        /\ refreshPending' = RefreshAfter(out, refreshPending)
        /\ IF out = "ok"
           THEN WriteDone(p, address, n)
           ELSE Failed(p, out, call, address, n)
    /\ data' = DataAfterWrite(data, address, values)
    /\ UNCHANGED <<lockObj, op, nOps>>

\* await self._write_register(address, new_value)
WriteRegister(p) ==
    WriteCall(p, "write", "write", op[p].address, <<loc[p].new_value>>,
              loc[p].new_value)

\* await self._write_registers(address, [hi, lo])
WriteCalibration(p) ==
    WriteCall(p, "cwrite", "write", op[p].address,
              calibration_words(op[p].arg, op[p].half),
              calibration_scaled(op[p].arg, op[p].half))

\* the operation has returned (or raised) to its caller
Return(p) ==
    /\ pc[p] = "done"
    /\ pc' = [pc EXCEPT ![p] = "idle"]
    /\ op' = [op EXCEPT ![p] = NoOp]
    /\ outcome' = [outcome EXCEPT ![p] = "none"]
    /\ ev' = [ev EXCEPT ![p] = <<>>]
    /\ UNCHANGED <<dev, connected, client, lockObj, holder, waiters, data, refreshPending,
                   loc, nOps, nFaults, writeSeq>>

\* the close recorded, the connection kept
AsyncCloseKeepsConnection ==
    /\ client' = [client EXCEPT !.closed = TRUE]
    /\ UNCHANGED <<dev, connected, lockObj, holder, waiters, data, refreshPending,
                   pc, op, loc, outcome, ev, nOps, nFaults, writeSeq>>

\* async_close: self._client.close()
AsyncClose ==
    /\ connected' = FALSE
    /\ client' = [client EXCEPT !.closed = TRUE]
    /\ UNCHANGED <<dev, lockObj, holder, waiters, data, refreshPending, pc, op,
                   loc, outcome, ev, nOps, nFaults, writeSeq>>

\* the transport loses its connection by itself: self._client.connected
\* reads False from now on
TransportDrop ==
    /\ connected
    /\ connected' = FALSE
    /\ UNCHANGED <<dev, client, lockObj, holder, waiters, data, refreshPending,
                   pc, op, loc, outcome, ev, nOps, nFaults, writeSeq>>

(***************************************************************************)
(* The inputs of the model and its specification.                          *)
(***************************************************************************)
\* what the controller may hold at the start: <<alarm/mode word, wireless
\* sensor count>>
InitConfigs == {<<0, 0>>, <<BIT_DUAL_ZONE_MODE + BIT_ZONE_1, MaxWireless>>}

InitDev(alarm, wcount) ==
    [a \in DevAddrs |->
        CASE a = REG_ALARM_MODE -> alarm
          [] a = REG_LINE_CFG_1_2 -> 1024 + 256 + 2
          [] a = REG_LEAK_SENSOR_RAW -> 4
          [] a = REG_RELAY_CFG -> 6
          [] a = REG_MODBUS_CFG -> 256 * 240 + 3
          [] a = REG_WIRELESS_SENSOR_COUNT -> wcount
          [] a = REG_WIRELESS_PARAMS_START -> 2
          [] a = REG_WIRELESS_SENSORS_START -> 256 * 87 + 8 * 3 + 1
          [] a = REG_WATER_COUNTERS_START + 1 -> 1000
          [] a = REG_WATER_COUNTERS_START + 2 -> 65535
          [] a = REG_WATER_COUNTERS_START + 3 -> 65535
          [] a = REG_COUNTER_SETTINGS_START -> 256 + 1
          [] a = REG_COUNTER_SETTINGS_START + 1 -> 256 * 10 + 4 + 2
          [] OTHER -> 0]

\* <<counter index, step>> the callers pass to the counter step write
StepInputs == {<<1, 10>>, <<9, 10>>, <<1, 7>>}
\* <<counter index, k, half>> the callers pass to the calibration write, the
\* value as value_m3 * 1000 = k + half / 2 (1.2345 m3 is <<1234, 1>>)
CalibrationInputs == {<<1, 1234, 1>>, <<0, 1234, 1>>}

\* the range of small products the calibration write is tried on
CalRange == 40

\* the products float(value_m3) * 1000 the calibration write is tried on, as
\* <<k, half>>: negative, small, around the 16-bit word boundary and at the
\* upper end
CalibrationValues ==
    (((0 - 3)..CalRange) \cup {0 - 5000, 1234, 1235, 65535, 65536, 65537,
                               INT32_MAX - 2, INT32_MAX - 1, INT32_MAX})
    \X {0, 1}

\* the counter indices the counter writes are tried on
CounterIndices == 0..9

\* the coordinator as constructed, with the controller holding registers and
\* the client's methods accepting the convention accepts
InitWith(registers, accepts) ==
    /\ dev = registers
    /\ connected = FALSE
    /\ client = NewClient(accepts)
    /\ lockObj = 0
    /\ holder = [L \in LockIds |-> NoTask]
    /\ waiters = [L \in LockIds |-> <<>>]
    /\ data = NoData
    /\ refreshPending = FALSE
    /\ pc = [p \in Tasks |-> "idle"]
    /\ op = [p \in Tasks |-> NoOp]
    /\ loc = [p \in Tasks |-> NoLocals]
    /\ outcome = [p \in Tasks |-> "none"]
    /\ ev = [p \in Tasks |-> <<>>]
    /\ nOps = 0
    /\ nFaults = 0
    /\ writeSeq = 0

\* the same with a client that accepts device_id as a keyword
InitState(registers) == InitWith(registers, 1)

Init == \E c \in InitConfigs : InitState(InitDev(c[1], c[2]))

\* a caller starts an operation
StartNext ==
    \/ \E p \in Tasks : StartTick(p)
    \/ \E p \in Tasks : StartRefresh(p)
    \/ \E p \in Tasks, tf \in AlarmTransforms :
            StartTransform(p, REG_ALARM_MODE, <<"alarm_mode_raw", 0>>, tf)
    \/ \E p \in Tasks, o \in CounterTransforms :
            StartTransform(p, o.address, o.key, o.tf)
    \/ \E p \in Tasks, a \in StepInputs : StartCounterStep(p, a[1], a[2])
    \/ \E p \in Tasks, a \in CalibrationInputs : StartCalibration(p, a[1], a[2], a[3])

\* an operation under way takes its next step
StepNext ==
    \/ \E p \in Tasks : PollLead(p)
    \/ \E p \in Tasks : PollWirelessParams(p)
    \/ \E p \in Tasks : PollWireless(p)
    \/ \E p \in Tasks : PollWater(p)
    \/ \E p \in Tasks : PollSettings(p)
    \/ \E p \in Tasks : CurrentFromSnapshot(p)
    \/ \E p \in Tasks : CurrentFromRead(p)
    \/ \E p \in Tasks : WriteRegister(p)
    \/ \E p \in Tasks : WriteCalibration(p)
    \/ \E p \in Tasks : Return(p)

Next == StartNext \/ StepNext

Spec == Init /\ [][Next]_vars

\* one caller that awaits each operation before it starts the next one
AllIdle == \A p \in Tasks : pc[p] = "idle"

SeqNext == (AllIdle /\ StartNext) \/ StepNext

SpecSeq == Init /\ [][SeqNext]_vars

\* one calibration write on the controller as it starts, over all indices
\* and values
CalNext ==
    \/ /\ nOps = 0
       /\ \E idx \in CounterIndices, v \in CalibrationValues :
              StartCalibration(1, idx, v[1], v[2])
    \/ \E p \in Tasks : WriteCalibration(p)
    \/ \E p \in Tasks : Return(p)

SpecCal == Init /\ [][CalNext]_vars

\* the counter settings words the step write is tried on: every value of
\* bits 0-3, two values of bits 4-7 and four step bytes
ConfigWords ==
    {low + high4 * 16 + step * 256 :
        low \in 0..15, high4 \in {0, 10}, step \in {0, 1, 100, 255}}

\* the controller with all eight counter settings registers holding word
SettingsAll(word) ==
    [a \in DevAddrs |->
        IF a >= REG_COUNTER_SETTINGS_START
           /\ a < REG_COUNTER_SETTINGS_START + REG_COUNTER_SETTINGS_COUNT
        THEN word ELSE InitDev(0, 0)[a]]

StepInit == \E word \in ConfigWords : InitState(SettingsAll(word))

\* one caller awaiting each call: a poll, then one counter step write over
\* all indices and the steps the entity offers, then the refresh poll
StepWriteNext ==
    \/ AllIdle /\ nOps = 0 /\ StartTick(1)
    \/ /\ AllIdle /\ nOps = 1
       /\ \E idx \in CounterIndices, step \in {1, 10, 100} :
              StartCounterStep(1, idx, step)
    \/ AllIdle /\ nOps = 2 /\ StartRefresh(1)
    \/ \E p \in Tasks : PollLead(p)
    \/ \E p \in Tasks : PollWater(p)
    \/ \E p \in Tasks : PollSettings(p)
    \/ \E p \in Tasks : CurrentFromSnapshot(p)
    \/ \E p \in Tasks : CurrentFromRead(p)
    \/ \E p \in Tasks : WriteRegister(p)
    \/ \E p \in Tasks : Return(p)

SpecStep == StepInit /\ [][StepWriteNext]_vars

\* the alarm/mode words the zone 1 toggles are tried on: every combination
\* of bits 0, 7, 8, 9, 10, 12 and 15
AlarmWords ==
    {b0 + b7 * 128 + b8 * 256 + b9 * 512 + b10 * 1024 + b12 * 4096 + b15 * 32768 :
        b0 \in 0..1, b7 \in 0..1, b8 \in 0..1, b9 \in 0..1, b10 \in 0..1,
        b12 \in 0..1, b15 \in 0..1}

ToggleInit ==
    \E v \in AlarmWords : InitState([InitDev(0, 0) EXCEPT ![REG_ALARM_MODE] = v])

\* one caller awaiting each call: the zone 1 switch turned on or off, with
\* or without a poll before it
ToggleNext ==
    \/ AllIdle /\ nOps = 0 /\ StartTick(1)
    \/ /\ AllIdle /\ nOps <= 1
       /\ \E tf \in {ZoneOneOn, ZoneOneOff} :
              StartTransform(1, REG_ALARM_MODE, <<"alarm_mode_raw", 0>>, tf)
    \/ \E p \in Tasks : PollLead(p)
    \/ \E p \in Tasks : PollWater(p)
    \/ \E p \in Tasks : PollSettings(p)
    \/ \E p \in Tasks : CurrentFromSnapshot(p)
    \/ \E p \in Tasks : CurrentFromRead(p)
    \/ \E p \in Tasks : WriteRegister(p)
    \/ \E p \in Tasks : Return(p)

SpecToggle == ToggleInit /\ [][ToggleNext]_vars

\* line-config words: every value of the four 2-bit fields, with the bits
\* outside the fields (4..7 and 12..15) all clear or all set
LineWords ==
    {t1 * 1024 + g1 * 256 + t2 * 4 + g2 + rest :
        t1 \in 0..3, g1 \in 0..3, t2 \in 0..3, g2 \in 0..3, rest \in {0, 61680}}

LineInit ==
    \E w \in LineWords :
        InitState([InitDev(0, 0) EXCEPT ![REG_LINE_CFG_1_2] = w,
                                        ![REG_LINE_CFG_3_4] = WORD_MAX - w])

\* one caller awaiting each call: a poll, one of the line selects set to a
\* code, and the refresh the write asks for
LineNext ==
    \/ AllIdle /\ nOps = 0 /\ StartTick(1)
    \/ /\ AllIdle /\ nOps = 1
       /\ \E line \in 1..4, code \in 0..3 :
            \E o \in {LineType(line, code), LineGroup(line, code)} :
                StartTransform(1, o.address, o.key, o.tf)
    \/ AllIdle /\ nOps = 2 /\ StartRefresh(1)
    \/ \E p \in Tasks : PollLead(p)
    \/ \E p \in Tasks : PollWater(p)
    \/ \E p \in Tasks : PollSettings(p)
    \/ \E p \in Tasks : CurrentFromSnapshot(p)
    \/ \E p \in Tasks : CurrentFromRead(p)
    \/ \E p \in Tasks : WriteRegister(p)
    \/ \E p \in Tasks : Return(p)

SpecLine == LineInit /\ [][LineNext]_vars

\* leak-sensor words: every value of the four line bits, and words with
\* higher bits set
LeakWords == (0..15) \cup {16, 65520, 65524}

\* line-config words with each line unset, typed or grouped, and one with
\* only bits outside the fields set
SparseLineWords ==
    {a * 256 + b : a \in {0, 4, 2}, b \in {0, 4, 2}} \cup {61680}

\* the words of one water counter: <<high word, low word>>
WaterPairs == {0, 1, 32767, 32768, 65535} \X {0, 1, 1000, 32768, 65535}

\* the controller with counter c holding pair and every other counter d
\* holding <<0, d>>
WaterDev(c, pair) ==
    [a \in DevAddrs |->
        IF /\ a >= REG_WATER_COUNTERS_START
           /\ a < REG_WATER_COUNTERS_START + REG_WATER_COUNTERS_REG_COUNT
        THEN LET d == ((a - REG_WATER_COUNTERS_START) \div 2) + 1
                 low == (a - REG_WATER_COUNTERS_START) % 2 = 1
             IN  IF d = c THEN (IF low THEN pair[2] ELSE pair[1])
                 ELSE (IF low THEN d ELSE 0)
        ELSE InitDev(0, 0)[a]]

\* the wireless sensor counts the controller may report
WirelessCounts == {0, 1, 2, 49, 50, 51, 65535}

DecodeInit ==
    \/ \E leak \in LeakWords, a \in SparseLineWords, b \in SparseLineWords :
          InitState([InitDev(0, 0) EXCEPT ![REG_LEAK_SENSOR_RAW] = leak,
                                          ![REG_LINE_CFG_1_2] = a,
                                          ![REG_LINE_CFG_3_4] = b])
    \/ \E c \in 1..8, pair \in WaterPairs : InitState(WaterDev(c, pair))
    \/ \E n \in WirelessCounts : InitState(InitDev(0, n))

\* one poll of the controller
DecodeNext ==
    \/ AllIdle /\ nOps = 0 /\ StartTick(1)
    \/ \E p \in Tasks : PollLead(p)
    \/ \E p \in Tasks : PollWirelessParams(p)
    \/ \E p \in Tasks : PollWireless(p)
    \/ \E p \in Tasks : PollWater(p)
    \/ \E p \in Tasks : PollSettings(p)
    \/ \E p \in Tasks : Return(p)

SpecDecode == DecodeInit /\ [][DecodeNext]_vars

\* the steps of the polls and of the single-register writes under way
SessionSteps ==
    \/ \E p \in Tasks : PollLead(p)
    \/ \E p \in Tasks : PollWirelessParams(p)
    \/ \E p \in Tasks : PollWireless(p)
    \/ \E p \in Tasks : PollWater(p)
    \/ \E p \in Tasks : PollSettings(p)
    \/ \E p \in Tasks : CurrentFromSnapshot(p)
    \/ \E p \in Tasks : CurrentFromRead(p)
    \/ \E p \in Tasks : WriteRegister(p)
    \/ \E p \in Tasks : Return(p)

\* the session with its unload: polls, refreshes and a counter select from
\* concurrent callers, and async_close called at any moment
CloseNext ==
    \/ \E p \in Tasks : StartTick(p)
    \/ \E p \in Tasks : StartRefresh(p)
    \/ \E p \in Tasks :
          StartTransform(p, CounterConnection(1, 1).address,
                         CounterConnection(1, 1).key, CounterConnection(1, 1).tf)
    \/ SessionSteps
    \/ AsyncClose

SpecClose == Init /\ [][CloseNext]_vars

\* every transport call returns and the event loop runs every task that can
\* go on
SpecCloseFair == SpecClose /\ WF_vars(SessionSteps)

\* one caller awaiting each call, async_close included: what is started after
\* the close finds the session closed
UnloadNext ==
    \/ AllIdle /\ StartTick(1)
    \/ AllIdle /\ StartRefresh(1)
    \/ /\ AllIdle
       /\ StartTransform(1, CounterConnection(1, 1).address,
                         CounterConnection(1, 1).key, CounterConnection(1, 1).tf)
    \/ SessionSteps
    \/ AllIdle /\ AsyncClose

SpecUnload == Init /\ [][UnloadNext]_vars

\* the session on a transport that may drop its connection at any moment
ConnNext ==
    \/ \E p \in Tasks : StartTick(p)
    \/ \E p \in Tasks : StartRefresh(p)
    \/ \E p \in Tasks :
          StartTransform(p, CounterConnection(1, 1).address,
                         CounterConnection(1, 1).key, CounterConnection(1, 1).tf)
    \/ SessionSteps
    \/ TransportDrop

SpecConn == Init /\ [][ConnNext]_vars

\* the installed client accepts any one of the conventions, or none
ProbeInit ==
    \E accepts \in {NoConvention} \cup DOMAIN Conventions, c \in InitConfigs :
        InitWith(InitDev(c[1], c[2]), accepts)

\* one caller awaiting each call: polls and a counter select
ProbeNext ==
    \/ AllIdle /\ StartTick(1)
    \/ AllIdle /\ StartRefresh(1)
    \/ /\ AllIdle
       /\ StartTransform(1, CounterConnection(1, 1).address,
                         CounterConnection(1, 1).key, CounterConnection(1, 1).tf)
    \/ SessionSteps

SpecProbe == ProbeInit /\ [][ProbeNext]_vars

\* the deltas of the callers' transforms and the settings words they meet
OffsetDeltas == {0 - 70000, 0 - 1, 0, 1, 70000}
SettingsWords == {0, 257, 65535}

WordInit ==
    \E w \in SettingsWords :
        InitState([InitDev(0, 0) EXCEPT ![REG_COUNTER_SETTINGS_START] = w])

\* one caller awaiting each call: every kind of write, the transform with
\* results inside and outside the 16-bit range
WordNext ==
    \/ AllIdle /\ nOps = 0 /\ StartTick(1)
    \/ /\ AllIdle
       /\ \E d \in OffsetDeltas :
              StartTransform(1, REG_COUNTER_SETTINGS_START, <<"counter_cfg_raw", 1>>,
                             Offset(d))
    \/ AllIdle /\ \E step \in {1, 10, 100} : StartCounterStep(1, 1, step)
    \/ /\ AllIdle
       /\ \E v \in {<<0 - 5000, 0>>, <<1234, 1>>, <<65536, 0>>, <<INT32_MAX, 0>>} :
              StartCalibration(1, 8, v[1], v[2])
    \/ \E p \in Tasks : PollLead(p)
    \/ \E p \in Tasks : PollWater(p)
    \/ \E p \in Tasks : PollSettings(p)
    \/ \E p \in Tasks : CurrentFromSnapshot(p)
    \/ \E p \in Tasks : CurrentFromRead(p)
    \/ \E p \in Tasks : WriteRegister(p)
    \/ \E p \in Tasks : WriteCalibration(p)
    \/ \E p \in Tasks : Return(p)

SpecWord == WordInit /\ [][WordNext]_vars

\* the transform writes tried for the source of their current value: with a
\* key the snapshot always has, with a key it has only when a wireless sensor
\* is reported, and with no key
CurrentOps ==
    {CounterConnection(1, 1), WirelessGroup(1, 1),
     TransformOp(REG_ALARM_MODE, NoKey, SetBits(1))}

\* one caller awaiting each call: writes before the first poll and after it
CurrentNext ==
    \/ AllIdle /\ nOps <= 1 /\ StartTick(1)
    \/ AllIdle /\ \E o \in CurrentOps : StartTransform(1, o.address, o.key, o.tf)
    \/ AllIdle /\ StartCounterStep(1, 1, 100)
    \/ \E p \in Tasks : PollLead(p)
    \/ \E p \in Tasks : PollWirelessParams(p)
    \/ \E p \in Tasks : PollWireless(p)
    \/ \E p \in Tasks : PollWater(p)
    \/ \E p \in Tasks : PollSettings(p)
    \/ \E p \in Tasks : CurrentFromSnapshot(p)
    \/ \E p \in Tasks : CurrentFromRead(p)
    \/ \E p \in Tasks : WriteRegister(p)
    \/ \E p \in Tasks : Return(p)

SpecCurrent == Init /\ [][CurrentNext]_vars

\* alarm/mode words the switches start from: every combination of bits 0,
\* 8, 9, 10 and 15
SwitchWords ==
    {b0 + b8 * 256 + b9 * 512 + b10 * 1024 + b15 * 32768 :
        b0 \in 0..1, b8 \in 0..1, b9 \in 0..1, b10 \in 0..1, b15 \in 0..1}

SwitchInit ==
    \E v \in SwitchWords : InitState([InitDev(0, 0) EXCEPT ![REG_ALARM_MODE] = v])

\* one caller awaiting each call: switches turned on and off one after the
\* other, before or after the first poll
SwitchNext ==
    \/ AllIdle /\ nOps = 0 /\ StartTick(1)
    \/ AllIdle /\ StartRefresh(1)
    \/ AllIdle /\ \E o \in SwitchOps : StartTransform(1, o.address, o.key, o.tf)
    \/ \E p \in Tasks : PollLead(p)
    \/ \E p \in Tasks : PollWater(p)
    \/ \E p \in Tasks : PollSettings(p)
    \/ \E p \in Tasks : CurrentFromSnapshot(p)
    \/ \E p \in Tasks : CurrentFromRead(p)
    \/ \E p \in Tasks : WriteRegister(p)
    \/ \E p \in Tasks : Return(p)

SpecSwitch == SwitchInit /\ [][SwitchNext]_vars

\* the writes followed up to the refresh they request: a switch of the
\* alarm/mode register, the connection type of counter 1 and the group of
\* wireless sensor 1
RefreshOps ==
    {AlarmModeOp(SetBits(BIT_FLOOR_WASHING_MODE)), CounterConnection(1, 1),
     WirelessGroup(1, 3)}

\* one caller awaiting each call; a write is started only while the
\* refresh it requests can still start (StartRefresh needs nOps < MaxOps)
RefreshNext ==
    \/ AllIdle /\ nOps = 0 /\ StartTick(1)
    \/ AllIdle /\ StartRefresh(1)
    \/ /\ AllIdle /\ nOps <= MaxOps - 2
       /\ \E o \in RefreshOps : StartTransform(1, o.address, o.key, o.tf)
    \/ AllIdle /\ nOps <= MaxOps - 2 /\ StartCounterStep(1, 1, 100)
    \/ SessionSteps

SpecRefresh == Init /\ [][RefreshNext]_vars

\* every transport call returns, and the refresh a write requested is run
\* by the update coordinator
SpecRefreshFair ==
    SpecRefresh /\ WF_vars(SessionSteps) /\ WF_vars(AllIdle /\ StartRefresh(1))

\* the controller with the counters of the set on enabled (settings word 1)
\* and every other counter not (settings word 65534: every bit but bit 0)
EnabledDev(on) ==
    [a \in DevAddrs |->
        IF a >= REG_COUNTER_SETTINGS_START
           /\ a < REG_COUNTER_SETTINGS_START + REG_COUNTER_SETTINGS_COUNT
        THEN (IF (a - REG_COUNTER_SETTINGS_START) + 1 \in on THEN 1 ELSE 65534)
        ELSE InitDev(0, 0)[a]]

\* controllers with every set of enabled counters, every reported wireless
\* count of WirelessCounts and every leak word with sparse line configs
ListsInit ==
    \/ \E on \in SUBSET (1..8) : InitState(EnabledDev(on))
    \/ \E n \in WirelessCounts : InitState(InitDev(0, n))
    \/ \E leak \in LeakWords, a \in SparseLineWords, b \in SparseLineWords :
          InitState([InitDev(0, 0) EXCEPT ![REG_LEAK_SENSOR_RAW] = leak,
                                          ![REG_LINE_CFG_1_2] = a,
                                          ![REG_LINE_CFG_3_4] = b])

SpecLists == ListsInit /\ [][DecodeNext]_vars

\* the words the selects' registers hold: none, all and alternating bits
SelectWords == {0, 23130, 42405, 65535}

\* the controller with one wireless sensor and word in every register a
\* select writes
SelectDev(word) ==
    [a \in DevAddrs |->
        IF a \in {REG_LINE_CFG_1_2, REG_LINE_CFG_3_4, REG_RELAY_CFG, REG_MODBUS_CFG,
                  REG_WIRELESS_PARAMS_START}
           \/ (a >= REG_COUNTER_SETTINGS_START
               /\ a < REG_COUNTER_SETTINGS_START + REG_COUNTER_SETTINGS_COUNT)
        THEN word
        ELSE InitDev(0, 1)[a]]

SelectInit == \E word \in SelectWords : InitState(SelectDev(word))

\* one caller awaiting each call: one select set to a code, before or after
\* the first poll, and the refresh the write asks for
SelectNext ==
    \/ AllIdle /\ nOps = 0 /\ StartTick(1)
    \/ AllIdle /\ StartRefresh(1)
    \/ /\ AllIdle /\ nOps <= 1 /\ writeSeq = 0
       /\ \E sel \in Selects : \E code \in SelectCodes(sel) :
              StartTransform(1, SelectOp(sel, code).address, SelectOp(sel, code).key,
                             SelectOp(sel, code).tf)
    \/ SessionSteps

SpecSelect == SelectInit /\ [][SelectNext]_vars

\* one caller awaiting each call: a counter's step set through the step
\* select or through async_write_counter_step, over all indices and the
\* steps of STEP_OPTIONS, before or after the first poll
StepWaysNext ==
    \/ AllIdle /\ nOps = 0 /\ StartTick(1)
    \/ /\ AllIdle /\ nOps <= 1 /\ writeSeq = 0
       /\ \E idx \in 1..8, step \in {1, 10, 100} :
              \/ StartCounterStep(1, idx, step)
              \/ StartTransform(1, CounterStepSelect(idx, step).address,
                                CounterStepSelect(idx, step).key,
                                CounterStepSelect(idx, step).tf)
    \/ \E p \in Tasks : PollLead(p)
    \/ \E p \in Tasks : PollWater(p)
    \/ \E p \in Tasks : PollSettings(p)
    \/ \E p \in Tasks : CurrentFromSnapshot(p)
    \/ \E p \in Tasks : CurrentFromRead(p)
    \/ \E p \in Tasks : WriteRegister(p)
    \/ \E p \in Tasks : Return(p)

SpecStepWays == StepInit /\ [][StepWaysNext]_vars

\* the values in 0.001 m3 the calibration entity is set to: the ends of the
\* range 0 .. 0x7FFFFFFF, small ones, and those around the word boundaries
CalibrationMilli ==
    {0, 1, 999, 1000, 1234, 32767, 32768, 65535, 65536, 65537,
     INT32_MAX - 65536, INT32_MAX - 1, INT32_MAX}

\* the controller with counter d holding <<0, d>>, or with counter 2 holding
\* 0xFFFF, 0xFFFF as well
RoundTripInit ==
    \E pair \in {<<0, 2>>, <<65535, 65535>>} : InitState(WaterDev(2, pair))

\* one calibration entity set to a value (value * 1000 is whole), before or
\* after the first poll, and the refresh the write asks for, which runs
\* before or after the write has returned to its caller
RoundTripNext ==
    \/ AllIdle /\ nOps = 0 /\ StartTick(1)
    \/ \E p \in Tasks : StartRefresh(p)
    \/ /\ AllIdle /\ nOps <= 1 /\ writeSeq = 0
       /\ \E idx \in 1..8, m \in CalibrationMilli : StartCalibration(1, idx, m, 0)
    \/ \E p \in Tasks : PollLead(p)
    \/ \E p \in Tasks : PollWater(p)
    \/ \E p \in Tasks : PollSettings(p)
    \/ \E p \in Tasks : WriteCalibration(p)
    \/ \E p \in Tasks : Return(p)

SpecRoundTrip == RoundTripInit /\ [][RoundTripNext]_vars

(***************************************************************************)
(* Properties.                                                             *)
(***************************************************************************)
\* task p is between acquiring and releasing the lock
InCS(p) ==
    pc[p] \in {"lead", "wparams", "wraw", "water", "settings",
               "current", "write", "cwrite"}

Running(p) == pc[p] \notin {"idle", "done"}

IsPoll(o) == o.kind \in {"tick", "refresh"}
IsWrite(o) == o.kind \in {"transform", "step", "calibration"}

Kinds(log) == [i \in 1..Len(log) |-> log[i][1]]
HasEvent(p, e) == \E i \in 1..Len(ev[p]) : ev[p][i][1] = e

\* task p issued a register read or write in this step
Transported(p) ==
    \E i \in (Len(ev[p]) + 1)..Len(ev'[p]) : ev'[p][i][1] \in {"read", "write"}

OneLockOneHolder ==
    /\ \A p \in Tasks : Running(p) => (lockObj # 0 /\ loc[p].lk = lockObj)
    /\ \A p, q \in Tasks : (InCS(p) /\ InCS(q)) => p = q
    /\ \A p \in Tasks : InCS(p) => holder[lockObj] = p

TransportOnlyByHolder ==
    \A p \in Tasks :
        Transported(p) => (InCS(p) /\ holder[lockObj] = p
                           /\ \A q \in Tasks : q # p => ~InCS(q))

\* C1: the poll and the three writes use one lock object, at most one of
\* them is between acquiring and releasing it, and every register read or
\* write is issued by the task that holds it, so none falls inside another
\* operation's critical section.
C1_MutualExclusion == []OneLockOneHolder /\ [][TransportOnlyByHolder]_vars

\* a poll holds the lock with part of its reads done while a write and a
\* second poll queue for the same lock
C1_Witness ==
    \E p, q, r \in Tasks :
        /\ pc[p] = "water" /\ IsPoll(op[p])
        /\ lockObj # 0 /\ waiters[lockObj] = <<q, r>>
        /\ op[q].kind = "transform" /\ IsPoll(op[r])

\* write counts seen by the sub-reads of a poll
TagWrites(tags) == {tags[i][2] : i \in 1..Len(tags)}
\* poll cycles the blocks of a snapshot come from
TagCycles(tags) == {tags[i][1] : i \in 1..Len(tags)}

\* C2: no write of the session reaches the controller between the first and
\* the last sub-read of a poll: all blocks of a published snapshot were read
\* at the same write count, and a poll in flight has seen no write land
\* since its first sub-read.
C2_NoWriteInsidePoll ==
    /\ data # NoData => Cardinality(TagWrites(data.src)) = 1
    /\ \A p \in Tasks :
          (IsPoll(op[p]) /\ InCS(p) /\ loc[p].tags # <<>>)
              => TagWrites(loc[p].tags) = {writeSeq}

\* a write was issued while the poll is in flight: the poll has read four
\* blocks and holds the lock for its last read, the write queues behind it
C2_Witness ==
    \E p, q \in Tasks :
        /\ IsPoll(op[p]) /\ pc[p] = "settings" /\ Len(loc[p].tags) = 4
        /\ op[q].kind = "transform" /\ pc[q] = "wait"
        /\ waiters[lockObj] = <<q>>

\* the derived fields of a snapshot, recomputed from its own raw fields
DerivedFromOwnRaw(sn) ==
    /\ sn.line_type = line_types(sn.line_cfg_1_2_raw, sn.line_cfg_3_4_raw)
    /\ sn.line_group = line_groups(sn.line_cfg_1_2_raw, sn.line_cfg_3_4_raw)
    /\ sn.detected_leak_lines =
          detected_leak(sn.leak_sensor_raw, sn.line_type, sn.line_group)
    /\ sn.dual_zone_mode = (AndN(sn.alarm_mode_raw, BIT_DUAL_ZONE_MODE) # 0)
    /\ \A i \in 1..8 :
          /\ sn.counter_enabled[i] = (sn.counter_cfg_raw[i] % 2 = 1)
          /\ sn.counter_step[i] = sn.counter_cfg_raw[i] \div 256
    /\ sn.detected_counters = Cardinality({i \in 1..8 : sn.counter_enabled[i]})
    /\ DOMAIN sn.wireless_raw = DOMAIN sn.wireless_cfg_raw
    /\ \A i \in DOMAIN sn.wireless_cfg_raw :
          sn.wireless_group[i] = sn.wireless_cfg_raw[i] % 256

\* what a poll reading all blocks right now would decode
DecodeNow ==
    LET lead == ReadRegs(REG_ALARM_MODE, LEAD_BLOCK_COUNT)
        n == WirelessCount(lead)
    IN  Decode(lead, ReadRegs(REG_WIRELESS_PARAMS_START, n),
               ReadRegs(REG_WIRELESS_SENSORS_START, n),
               ReadRegs(REG_WATER_COUNTERS_START, REG_WATER_COUNTERS_REG_COUNT),
               ReadRegs(REG_COUNTER_SETTINGS_START, REG_COUNTER_SETTINGS_COUNT))

SnapshotOfOneCycle ==
    data # NoData =>
        /\ Cardinality(TagCycles(data.src)) = 1
        /\ DerivedFromOwnRaw(data.snap)
        /\ TagWrites(data.src) = {writeSeq} => data.snap = DecodeNow

\* self.data changes only when a poll cycle returns its snapshot
ReplacedAsAWhole ==
    data' # data =>
        \E p \in Tasks : /\ pc[p] = "settings" /\ pc'[p] = "done"
                         /\ outcome'[p] = "published"
                         /\ TagCycles(data'.src) = {op[p].arg}

\* C3: a published snapshot holds the words of one poll cycle, its derived
\* fields are those of its own raw fields, and self.data changes only by
\* being replaced with the snapshot a poll returned.
C3_SnapshotOneBatch == []SnapshotOfOneCycle /\ [][ReplacedAsAWhole]_vars

\* a second poll has replaced the snapshot of the first, with all five
\* blocks read and a register changed by a write in between
C3_Witness ==
    /\ data # NoData
    /\ Len(data.src) = 5
    /\ TagCycles(data.src) = {3}
    /\ TagWrites(data.src) = {1}

\* C4: two register-transform writes to one register that change different
\* bits have both gone through, and no other write has: the register holds
\* both changes. The writes are counter 1's enabled switch turned off (bit 0
\* of the counter's settings word) and its connection type set to 1 (bit 1
\* of the same word).
C4_NoLostUpdate ==
    \A p, q \in Tasks :
        ( /\ p # q
          /\ op[p] = CounterEnabledOff(1) /\ outcome[p] = "written"
          /\ op[q] = CounterConnection(1, 1) /\ outcome[q] = "written"
          /\ writeSeq = 2 )
        => /\ Field(dev[REG_COUNTER_SETTINGS_START], 0, 1) = 0
           /\ Field(dev[REG_COUNTER_SETTINGS_START], 1, 1) = 1

\* the controller started with dual-zone-mode off (the start with no
\* wireless sensors) and a write has switched it on
DualSwitchedOn ==
    /\ dev[REG_WIRELESS_SENSOR_COUNT] = 0
    /\ AndN(dev[REG_ALARM_MODE], BIT_DUAL_ZONE_MODE) # 0

\* the controller started with dual-zone-mode on and a write has switched
\* it off
DualSwitchedOff ==
    /\ dev[REG_WIRELESS_SENSOR_COUNT] # 0
    /\ AndN(dev[REG_ALARM_MODE], BIT_DUAL_ZONE_MODE) = 0

\* C5: with one caller awaiting each write before the next, a zone-1 toggle
\* that follows a completed switch of dual-zone-mode writes the value of the
\* branch the controller's register calls for: only bit 8 changed after
\* dual-zone-mode was switched on, both zone bits after it was switched off.
C5_ZoneToggleAtWriteTime ==
    \A q \in Tasks :
        (pc[q] = "write" /\ op[q].kind = "transform") =>
            /\ (op[q].tf = ZoneOneOn /\ DualSwitchedOn)
                  => loc[q].new_value = set_bits(dev[REG_ALARM_MODE], ZONE_1_BIT8)
            /\ (op[q].tf = ZoneOneOff /\ DualSwitchedOn)
                  => loc[q].new_value = clear_bits(dev[REG_ALARM_MODE], ZONE_1_BIT8)
            /\ (op[q].tf = ZoneOneOn /\ DualSwitchedOff)
                  => loc[q].new_value = set_bits(dev[REG_ALARM_MODE], MASK_ZONE_BOTH)
            /\ (op[q].tf = ZoneOneOff /\ DualSwitchedOff)
                  => loc[q].new_value = clear_bits(dev[REG_ALARM_MODE], MASK_ZONE_BOTH)

\* the step in which task p's operation ends as a no-op
NoOpStep(p) == outcome[p] = "running" /\ outcome'[p] = "noop"

NoOpLeavesNoTrace ==
    \A p \in Tasks :
        /\ outcome[p] = "noop" =>
              /\ op[p].kind \in {"transform", "step"}
              /\ ~HasEvent(p, "write") /\ ~HasEvent(p, "refresh")
              /\ HasEvent(p, "release")
              /\ \A L \in LockIds : holder[L] # p
        /\ pc[p] = "write" => loc[p].new_value # loc[p].current

\* C6: when the value computed from the current one equals it, the
\* operation ends with no write_register call and no refresh request and
\* with the lock released; a write is only ever issued for a changed value.
C6_NoOpGuarantee ==
    /\ []NoOpLeavesNoTrace
    /\ [][\A p \in Tasks : NoOpStep(p) =>
              /\ dev' = dev /\ writeSeq' = writeSeq
              /\ refreshPending' = refreshPending
              /\ holder'[lockObj] # p]_vars

\* counter 1's connection type set to the value it has got from the write
\* before, as the snapshot of the refresh poll shows
C6_Witness ==
    \E p \in Tasks :
        /\ outcome[p] = "noop" /\ op[p] = CounterConnection(1, 1)
        /\ Kinds(ev[p]) = <<"acquire", "cached", "release">>
        /\ ~refreshPending

Position(log, e) == CHOOSE i \in 1..Len(log) : log[i][1] = e

\* C7: a write that changed the value did, in this order: acquire the lock,
\* obtain the current value (the calibration write has none to obtain),
\* issue one write at the target address, release the lock, request the
\* refresh. No task that has requested a refresh holds the lock, and a task
\* waits for the lock only while a running operation holds it.
C7_WriteOrder ==
    /\ \A p \in Tasks :
          outcome[p] = "written" =>
              /\ op[p].kind \in {"transform", "step"} =>
                    /\ Kinds(ev[p]) \in
                          {<<"acquire", "cached", "write", "release", "refresh">>,
                           <<"acquire", "read", "write", "release", "refresh">>}
                    /\ ev[p][2][2] = op[p].address
                    /\ ev[p][3][2] = op[p].address
              /\ op[p].kind = "calibration" =>
                    /\ Kinds(ev[p]) = <<"acquire", "write", "release", "refresh">>
                    /\ ev[p][2][2] = op[p].address
    /\ \A p \in Tasks :
          HasEvent(p, "refresh") =>
              /\ HasEvent(p, "release")
              /\ Position(ev[p], "release") < Position(ev[p], "refresh")
              /\ \A L \in LockIds : holder[L] # p
    /\ \A L \in LockIds :
          waiters[L] # <<>> => (holder[L] # NoTask /\ InCS(holder[L]))

\* a switch write took the current value from the snapshot, wrote, released
\* and requested the refresh, and the refresh poll has started and holds
\* the lock
C7_Witness ==
    \E p, q \in Tasks :
        /\ outcome[p] = "written"
        /\ Kinds(ev[p]) = <<"acquire", "cached", "write", "release", "refresh">>
        /\ op[q].kind = "refresh" /\ InCS(q)

\* C8: a task whose operation has ended, however it ended, neither holds
\* the lock nor waits for it; with no operation under way the lock is free;
\* a free lock has no waiters.
C8_LockReleased ==
    /\ \A p \in Tasks :
          ~Running(p) =>
              \A L \in LockIds :
                  /\ holder[L] # p
                  /\ \A i \in 1..Len(waiters[L]) : waiters[L][i] # p
    /\ (\A p \in Tasks : ~Running(p)) =>
          \A L \in LockIds : holder[L] = NoTask /\ waiters[L] = <<>>
    /\ \A L \in LockIds : holder[L] = NoTask => waiters[L] = <<>>

\* a write failed at its write call and a poll failed at a read, both after
\* taking the lock, and a later operation holds the lock now
C8_Witness ==
    \E p, q, r \in Tasks :
        /\ p # q
        /\ outcome[p] = "failed" /\ HasEvent(p, "acquire") /\ HasEvent(p, "release")
        /\ outcome[q] \in {"noop", "written", "published"}
        /\ InCS(r) /\ holder[lockObj] = r

\* the step in which task p's operation ends with an error
FailStep(p) == outcome[p] = "running" /\ outcome'[p] = "failed"

\* C9: a write whose transport read or write failed ends with the error,
\* has requested no refresh, and the step that fails changes neither the
\* published snapshot nor the pending refresh.
C9_WriteFailure ==
    /\ [](\A p \in Tasks :
            (outcome[p] = "failed" /\ IsWrite(op[p])) =>
                /\ pc[p] = "done"
                /\ HasEvent(p, "error")
                /\ ~HasEvent(p, "refresh"))
    /\ [][\A p \in Tasks :
            (FailStep(p) /\ IsWrite(op[p])) =>
                (data' = data /\ refreshPending' = refreshPending)]_vars

\* the write call of a switch write got an error, with a snapshot published
\* and no refresh pending
C9_Witness ==
    \E p \in Tasks :
        /\ outcome[p] = "failed" /\ op[p].kind = "transform"
        /\ Kinds(ev[p]) = <<"acquire", "cached", "write", "error", "release">>
        /\ data # NoData /\ ~refreshPending

\* C10: a poll cycle that fails at a sub-read ends with the error, and the
\* step that fails leaves the published snapshot as it was.
C10_PollFailure ==
    /\ [](\A p \in Tasks :
            (outcome[p] = "failed" /\ IsPoll(op[p])) =>
                (pc[p] = "done" /\ HasEvent(p, "error") /\ ~HasEvent(p, "publish")))
    /\ [][\A p \in Tasks :
            (FailStep(p) /\ IsPoll(op[p])) => data' = data]_vars

\* a poll failed after its first block was read, while the snapshot of an
\* earlier poll is published and the alarm/mode register has changed since
C10_Witness ==
    \E p \in Tasks :
        /\ outcome[p] = "failed" /\ IsPoll(op[p])
        /\ Kinds(ev[p])[2] = "read" /\ HasEvent(p, "error")
        /\ data # NoData
        /\ data.snap.alarm_mode_raw # dev[REG_ALARM_MODE]

\* the arguments of a counter step or calibration call that the claims call
\* invalid
InvalidInput(o) ==
    \/ o.kind = "step" /\ (o.index \notin 1..8 \/ o.arg \notin {1, 10, 100})
    \/ o.kind = "calibration" /\ o.index \notin 1..8

\* the step in which task p's call is rejected
RejectStep(p) == outcome[p] # "rejected" /\ outcome'[p] = "rejected"

\* C11: a counter step call with an index outside 1..8 or a step outside
\* {1, 10, 100}, and a calibration call with an index outside 1..8, end with
\* the error and nothing else: the task never holds or waits for the lock,
\* and the rejecting step changes neither the lock's holder and queue, the
\* connection, the controller's registers nor the pending refresh.
C11_RejectedBeforeLock ==
    /\ [](\A p \in Tasks :
            InvalidInput(op[p]) =>
                /\ outcome[p] = "rejected" /\ pc[p] = "done"
                /\ Kinds(ev[p]) = <<"error">>
                /\ \A L \in LockIds :
                      /\ holder[L] # p
                      /\ \A i \in 1..Len(waiters[L]) : waiters[L][i] # p)
    /\ [][\A p \in Tasks :
            RejectStep(p) =>
                UNCHANGED <<holder, waiters, connected, dev, writeSeq,
                            refreshPending, data, nFaults>>]_vars

\* a step call with step 7 was rejected while another operation holds the
\* lock
C11_Witness ==
    \E p, q \in Tasks :
        /\ outcome[p] = "rejected" /\ op[p].kind = "step" /\ op[p].arg = 7
        /\ InCS(q) /\ holder[lockObj] = q

\* the value of a calibration call lies outside 0 .. 2147483.647 m3
OutOfRange(o) == o.arg < 0 \/ (o.arg >= INT32_MAX /\ (o.arg > INT32_MAX \/ o.half = 1))

IsCalibration(p) == op[p].kind = "calibration" /\ op[p].index \in 1..8

\* the 32-bit value of the two words the controller holds for counter idx
\* (hi below 0x8000)
WaterWords(idx) ==
    dev[REG_WATER_COUNTERS_START + (idx - 1) * 2] * 65536
        + dev[REG_WATER_COUNTERS_START + (idx - 1) * 2 + 1]

\* C12 as stated: a calibration call with a value out of range has ended
\* rejected when it returns, with no write issued.
C12_OutOfRangeRejected ==
    \A p \in Tasks :
        (IsCalibration(p) /\ OutOfRange(op[p]) /\ pc[p] = "done") =>
            (outcome[p] = "rejected" /\ ~HasEvent(p, "write"))

\* C12 amended: a calibration call with a value out of range and an index in
\* 1..8 is not rejected: it takes the lock and writes 0 for a negative value
\* and 0x7FFFFFFF for a value above the range; a calibration call is
\* rejected only for its index.
C12_OutOfRangeClamped ==
    \A p \in Tasks :
        /\ (op[p].kind = "calibration" /\ outcome[p] = "rejected")
              => op[p].index \notin 1..8
        /\ (IsCalibration(p) /\ OutOfRange(op[p])) =>
              /\ outcome[p] # "rejected"
              /\ HasEvent(p, "acquire")
              /\ outcome[p] = "written" =>
                    /\ dev[op[p].address] <= 32767
                    /\ WaterWords(op[p].index) =
                          (IF op[p].arg < 0 THEN 0 ELSE INT32_MAX)

\* calibration writes of -5 m3 and of a value above the range have gone
\* through
C12_Witness ==
    \E p \in Tasks :
        /\ IsCalibration(p) /\ outcome[p] = "written"
        /\ op[p].arg \in {0 - 5000, INT32_MAX} /\ op[p].half = 1

\* the registers other than the two words of counter idx are as at the start
OtherRegistersUntouched(idx) ==
    \E c \in InitConfigs :
        \A a \in DevAddrs :
            a \notin {REG_WATER_COUNTERS_START + (idx - 1) * 2,
                      REG_WATER_COUNTERS_START + (idx - 1) * 2 + 1}
                => dev[a] = InitDev(c[1], c[2])[a]

\* C13: a calibration call with an index in 1..8 that goes through has
\* acquired the lock, issued one write of two words at water-counter base +
\* (index - 1) * 2 with no read before it, released the lock and requested
\* the refresh; the words hold hi * 65536 + lo = the value in milli-units
\* clamped to 0 .. 0x7FFFFFFF (for a value on a tie, one of its two
\* neighbours), hi is 0x7FFF at most, and no other register has changed.
C13_CalibrationWrite ==
    \A p \in Tasks :
        (IsCalibration(p) /\ outcome[p] = "written") =>
            /\ Kinds(ev[p]) = <<"acquire", "write", "release", "refresh">>
            /\ ev[p][2][2] = REG_WATER_COUNTERS_START + (op[p].index - 1) * 2
            /\ dev[op[p].address] <= 32767
            /\ dev[op[p].address + 1] <= 65535
            /\ ev[p][2][3] = WaterWords(op[p].index)
            /\ OtherRegistersUntouched(op[p].index)
            /\ op[p].arg < 0 => WaterWords(op[p].index) = 0
            /\ op[p].arg >= INT32_MAX => WaterWords(op[p].index) = INT32_MAX
            /\ (op[p].arg >= 0 /\ op[p].arg < INT32_MAX) =>
                  WaterWords(op[p].index) \in
                      {op[p].arg, op[p].arg + op[p].half}

\* counter 8 calibrated to 65.536 m3: the high word is 1 and the low word 0
C13_Witness ==
    \E p \in Tasks :
        /\ IsCalibration(p) /\ outcome[p] = "written"
        /\ op[p].index = 8 /\ op[p].arg = 65536 /\ op[p].half = 0
        /\ dev[REG_WATER_COUNTERS_START + 14] = 1
        /\ dev[REG_WATER_COUNTERS_START + 15] = 0

\* a calibration call whose product is a tie k + 1/2 inside the range
OnTie(p) ==
    /\ IsCalibration(p) /\ outcome[p] = "written"
    /\ op[p].half = 1 /\ op[p].arg >= 0 /\ op[p].arg < INT32_MAX

SettingsReg(idx) == dev[REG_COUNTER_SETTINGS_START + (idx - 1)]

\* C15: the word a counter step write is about to write has the step in
\* bits 8-15 and the low byte of the current word in bits 0-7, at
\* settings-base + (index - 1); once it is written the register holds the
\* step in its high byte and the low byte every counter started with, no
\* other settings register has changed, and a poll after the write decodes
\* counter_N_step as the step and enabled, connection_type and namur_error
\* as the bits 0, 1 and 2-3 the word had before.
C15_StepWriteFrame ==
    /\ \A p \in Tasks :
          (op[p].kind = "step" /\ pc[p] = "write") =>
              /\ op[p].address = REG_COUNTER_SETTINGS_START + (op[p].index - 1)
              /\ loc[p].new_value \div 256 = op[p].arg
              /\ loc[p].new_value % 256 = loc[p].current % 256
              /\ loc[p].current = SettingsReg(op[p].index)
    /\ \A p \in Tasks :
          (op[p].kind = "step" /\ outcome[p] = "written") =>
              /\ SettingsReg(op[p].index) \div 256 = op[p].arg
              /\ \A j \in 1..8 :
                    /\ SettingsReg(j) % 256 = SettingsReg(op[p].index) % 256
                    /\ j # op[p].index => SettingsReg(j) \in ConfigWords
    /\ (data # NoData /\ TagWrites(data.src) = {writeSeq}) =>
          \A i \in 1..8 :
              /\ data.snap.counter_step[i] = SettingsReg(i) \div 256
              /\ data.snap.counter_enabled[i] = (SettingsReg(1) % 2 = 1)
              /\ data.snap.counter_connection_type[i] = (SettingsReg(1) \div 2) % 2
              /\ data.snap.counter_namur_error[i] = (SettingsReg(1) \div 4) % 4

\* counter 8 was set to step 100 from a word with bits 0, 2 and 3 set, and
\* the refresh poll has published the result
C15_Witness ==
    /\ writeSeq = 1 /\ data # NoData /\ TagWrites(data.src) = {1}
    /\ data.snap.counter_step[8] = 100
    /\ data.snap.counter_step[1] = 255
    /\ data.snap.counter_enabled[8]
    /\ data.snap.counter_connection_type[8] = 0
    /\ data.snap.counter_namur_error[8] = 3

\* bit i of word v
Bit(v, i) == (v \div (2 ^ i)) % 2

\* words a and b agree in every bit outside the set except
SameOutside(a, b, except) == \A i \in 0..15 : i \notin except => Bit(a, i) = Bit(b, i)

\* the zone 1 switch is about to write: its current word and the new one
Toggling(p, tf) == op[p].kind = "transform" /\ op[p].tf = tf /\ pc[p] = "write"

\* the toggle in single-zone mode: both zone bits (8 and 9) set or cleared,
\* every other bit as it was; a toggle that ends as a no-op found the
\* register in the state it asks for
ToggleSingleZone ==
    \A p \in Tasks :
        /\ (Toggling(p, ZoneOneOn) /\ Bit(loc[p].current, 10) = 0) =>
              /\ Bit(loc[p].new_value, 8) = 1 /\ Bit(loc[p].new_value, 9) = 1
              /\ SameOutside(loc[p].new_value, loc[p].current, {8, 9})
        /\ (Toggling(p, ZoneOneOff) /\ Bit(loc[p].current, 10) = 0) =>
              /\ Bit(loc[p].new_value, 8) = 0 /\ Bit(loc[p].new_value, 9) = 0
              /\ SameOutside(loc[p].new_value, loc[p].current, {8, 9})
        /\ (Toggling(p, ZoneOneOn) \/ Toggling(p, ZoneOneOff)) =>
              loc[p].current = dev[REG_ALARM_MODE]
        /\ (op[p].kind = "transform" /\ outcome[p] = "noop"
               /\ Bit(dev[REG_ALARM_MODE], 10) = 0) =>
              /\ Bit(dev[REG_ALARM_MODE], 8) = (IF op[p].tf = ZoneOneOn THEN 1 ELSE 0)
              /\ Bit(dev[REG_ALARM_MODE], 9) = (IF op[p].tf = ZoneOneOn THEN 1 ELSE 0)

\* C16 as stated: in dual-zone mode the toggle changes only bit 8 and leaves
\* the zone-1 and zone-2 bits as they were; in single-zone mode it sets or
\* clears both zone bits; every other bit is unchanged.
C16_ToggleLeavesZoneBits ==
    /\ ToggleSingleZone
    /\ \A p \in Tasks :
          ((Toggling(p, ZoneOneOn) \/ Toggling(p, ZoneOneOff))
              /\ Bit(loc[p].current, 10) = 1) =>
              /\ SameOutside(loc[p].new_value, loc[p].current, {8})
              /\ AndN(loc[p].new_value, BIT_ZONE_1) = AndN(loc[p].current, BIT_ZONE_1)
              /\ AndN(loc[p].new_value, BIT_ZONE_2) = AndN(loc[p].current, BIT_ZONE_2)

\* C16 amended: in dual-zone mode the toggle sets or clears only bit 8,
\* which is the zone-1 bit, and leaves the zone-2 bit as it was; in
\* single-zone mode it sets or clears both zone bits; every other bit,
\* the dual-zone-mode bit included, is unchanged.
C16_ToggleZoneOne ==
    /\ ToggleSingleZone
    /\ \A p \in Tasks :
          /\ (Toggling(p, ZoneOneOn) /\ Bit(loc[p].current, 10) = 1) =>
                /\ Bit(loc[p].new_value, 8) = 1
                /\ SameOutside(loc[p].new_value, loc[p].current, {8})
          /\ (Toggling(p, ZoneOneOff) /\ Bit(loc[p].current, 10) = 1) =>
                /\ Bit(loc[p].new_value, 8) = 0
                /\ SameOutside(loc[p].new_value, loc[p].current, {8})
          /\ (op[p].kind = "transform" /\ outcome[p] = "noop"
                 /\ Bit(dev[REG_ALARM_MODE], 10) = 1) =>
                Bit(dev[REG_ALARM_MODE], 8) = (IF op[p].tf = ZoneOneOn THEN 1 ELSE 0)

\* zone 1 turned on in dual-zone mode with zone 2 open and bits 0 and 15 set:
\* only bit 8 was added
C16_Witness ==
    \E p \in Tasks :
        /\ op[p].kind = "transform" /\ op[p].tf = ZoneOneOn
        /\ outcome[p] = "written"
        /\ dev[REG_ALARM_MODE] = 32768 + 1024 + 512 + 256 + 1

\* the (type, group) pairs of two lines written back into word with the
\* selects' transform, at the shifts 10, 8, 2 and 0
Reencode(ta, ga, tb, gb, word) ==
    mask_transform(0, 2, gb,
        mask_transform(2, 2, tb,
            mask_transform(8, 2, ga,
                mask_transform(10, 2, ta, word))))

\* task p runs a line select
LineSelect(p) == op[p].kind = "transform" /\ op[p].tf.t = "mask" /\ op[p].tf.w = 2

LineQualifies(i) ==
    LET w == IF i <= 2 THEN dev[REG_LINE_CFG_1_2] ELSE dev[REG_LINE_CFG_3_4]
        g == IF i \in {1, 3} THEN 8 ELSE 0
    IN  \/ Bit(dev[REG_LEAK_SENSOR_RAW], i - 1) = 1
        \/ Bit(w, g) = 1 \/ Bit(w, g + 1) = 1
        \/ Bit(w, g + 2) = 1 \/ Bit(w, g + 3) = 1

\* C18: for every leak-sensor word and pair of line-config words the
\* snapshot's detected_leak_lines is the highest line index in 1..4 whose leak
\* bit is set or whose type or group is non-zero, 1 when no line qualifies,
\* and always in 1..4.
C18_DetectedLeakLines ==
    data # NoData =>
        LET r == data.snap.detected_leak_lines
        IN  /\ r \in 1..4
            /\ \A i \in 1..4 : LineQualifies(i) => i <= r
            /\ LineQualifies(r) \/ (r = 1 /\ \A i \in 1..4 : ~LineQualifies(i))

\* no leak bit, lines 1 and 2 configured, line 3 unset, line 4 typed: 4
C18_Witness ==
    /\ data # NoData
    /\ dev[REG_LEAK_SENSOR_RAW] = 0
    /\ dev[REG_LINE_CFG_1_2] = 4 * 256 + 2
    /\ dev[REG_LINE_CFG_3_4] = 4
    /\ data.snap.detected_leak_lines = 4

\* the words of counter c on the controller
WaterHi(c) == dev[REG_WATER_COUNTERS_START + 2 * (c - 1)]
WaterLo(c) == dev[REG_WATER_COUNTERS_START + 2 * (c - 1) + 1]

\* v is the signed 32-bit reading of the words hi, lo
IsSigned32(v, hi, lo) ==
    /\ v >= (0 - INT32_MAX) - 1 /\ v <= INT32_MAX
    /\ v % 65536 = lo
    /\ ((v - lo) \div 65536) % 65536 = hi

\* C19: for each counter c in 1..8 the snapshot value under the key of slot
\* ((c-1) div 2) + 1 and port 1 for odd c, 2 for even c, is the two's-complement
\* signed 32-bit integer hi * 65536 + lo of the counter's words, in 0.001 m3;
\* the eight counters have eight distinct keys.
C19_WaterCounterDecode ==
    data # NoData =>
        LET wc == data.snap.water_counter
        IN  /\ \A c \in 1..8 :
                  LET key == <<((c - 1) \div 2) + 1, IF c % 2 = 1 THEN 1 ELSE 2>>
                  IN  /\ key \in DOMAIN wc
                      /\ IsSigned32(wc[key], WaterHi(c), WaterLo(c))
                      /\ (WaterHi(c) = 0 /\ WaterLo(c) = 1) => wc[key] = 1
                      /\ (WaterHi(c) = 65535 /\ WaterLo(c) = 65535) => wc[key] = 0 - 1
                      /\ (WaterHi(c) = 0 /\ WaterLo(c) = 1000) => wc[key] = 1000
            /\ Cardinality(DOMAIN wc) = 8

\* counter 4 holds 0xFFFF, 0xFFFF: slot 2 port 2 reads -0.001 m3, next to
\* counter 3 at slot 2 port 1
C19_Witness ==
    /\ data # NoData
    /\ WaterHi(4) = 65535 /\ WaterLo(4) = 65535
    /\ data.snap.water_counter[<<2, 2>>] = 0 - 1
    /\ data.snap.water_counter[<<2, 1>>] = 3

\* the reads of count registers at address logged by task p
ReadsAt(p, address) ==
    {i \in 1..Len(ev[p]) : ev[p][i][1] = "read" /\ ev[p][i][2] = address}

\* the per-sensor fields of the snapshot d, as their index sets
WirelessFields(d) ==
    {DOMAIN d.wireless_cfg_raw, DOMAIN d.wireless_group, DOMAIN d.wireless_raw,
     DOMAIN d.wireless_alarm, DOMAIN d.wireless_category, DOMAIN d.wireless_loss,
     DOMAIN d.wireless_signal, DOMAIN d.wireless_battery}

\* C20: with a reported wireless sensor count of 0 the poll issues neither
\* wireless read and the snapshot has no wireless sensor field; with a count
\* n > 0 it reads min(n, 50) registers from each wireless block and the
\* snapshot has the wireless fields of exactly the indices 1..min(n, 50).
C20_WirelessCount ==
    \A p \in Tasks :
        (IsPoll(op[p]) /\ outcome[p] = "published") =>
            LET n == dev[REG_WIRELESS_SENSOR_COUNT]
                k == IF n <= 50 THEN n ELSE 50
            IN  /\ Cardinality(ReadsAt(p, REG_WIRELESS_PARAMS_START))
                      = (IF n = 0 THEN 0 ELSE 1)
                /\ Cardinality(ReadsAt(p, REG_WIRELESS_SENSORS_START))
                      = (IF n = 0 THEN 0 ELSE 1)
                /\ \A i \in ReadsAt(p, REG_WIRELESS_PARAMS_START)
                           \cup ReadsAt(p, REG_WIRELESS_SENSORS_START) :
                      ev[p][i][3] = k
                /\ WirelessFields(data.snap) = {1..k}

\* 51 sensors reported: 50 registers read from each block, fields 1..50
C20_Witness ==
    \E p \in Tasks :
        /\ IsPoll(op[p]) /\ outcome[p] = "published"
        /\ dev[REG_WIRELESS_SENSOR_COUNT] = 51
        /\ Event("read", REG_WIRELESS_PARAMS_START, 50) \in {ev[p][i] : i \in 1..Len(ev[p])}
        /\ Len(data.snap.wireless_battery) = 50

\* C21: Closed is terminal: once async_close has been called no poll or write
\* connects to the transport or issues a register read or write.
\* Stated where the caller awaits every call, so that whatever runs in a
\* closed session was started after the close.
C21_ClosedIsTerminal ==
    [][client.closed =>
          /\ \A p \in Tasks : ~Transported(p)
          /\ connected' => connected]_vars

\* task p logs event e in this step
NewEvent(p, e) == \E i \in (Len(ev[p]) + 1)..Len(ev'[p]) : ev'[p][i][1] = e

\* task p's operation fails in this step
FailsNow(p) == outcome[p] = "running" /\ outcome'[p] = "failed"

\* C22: every register read or write is issued on a connected client, after a
\* connect when the client was disconnected; when that connect fails the
\* operation fails with no register read or write issued; an operation that
\* fails while the client is connected leaves it connected, and only the
\* transport itself drops the connection.
C22_EnsureConnected ==
    [][/\ \A p \in Tasks :
            /\ Transported(p) => connected'
            /\ NewEvent(p, "connect_failed") =>
                  /\ ~connected /\ ~connected'
                  /\ ~Transported(p)
                  /\ FailsNow(p)
                  /\ dev' = dev
            /\ (FailsNow(p) /\ ~connected /\ ~NewEvent(p, "connect_failed")) => connected'
            /\ (FailsNow(p) /\ connected) => connected'
       /\ (connected /\ ~connected') => (pc' = pc /\ ev' = ev)]_vars

\* a refresh poll failed on a register read it had issued, with a snapshot
\* published before: the client is still connected
C22_Witness ==
    \E p \in Tasks :
        /\ op[p].kind = "refresh"
        /\ outcome[p] = "failed"
        /\ HasEvent(p, "read")
        /\ connected
        /\ data # NoData

\* C23: the calling convention is probed at the first transport call and
\* kept: once a call has found the accepted convention, every later call
\* attempts that convention only.
C23_ProbedOnce ==
    [][\A p \in Tasks :
          (client.tried # <<>> /\ client.accepts # NoConvention /\ Transported(p)) =>
              client'.tried = <<Conventions[client.accepts]>>]_vars

\* C24: when no convention is accepted the operation that triggered the probe
\* fails with an error, and the failure is fatal: no later operation attempts
\* a transport call or connects.
C24_ProbeFailureFatal ==
    [][\A p \in Tasks :
          /\ NewEvent(p, "type_error") => FailsNow(p)
          /\ (client.accepts = NoConvention /\ client.tried # <<>>) =>
                /\ ~NewEvent(p, "type_error")
                /\ connected' => connected]_vars

\* the events of a log that stand for an attempted transport call
CallKinds == {"read", "write", "connect_failed", "type_error"}

LockFree == \A L \in LockIds : holder[L] = NoTask /\ waiters[L] = <<>>

\* C27: close can come in any state, also while operations hold the lock or
\* wait for it: it disconnects the client and touches neither the tasks nor
\* the lock, nothing else disconnects the client, and afterwards every
\* operation in flight ends and the lock becomes free.
C27_CloseAnyTime ==
    /\ [][/\ (~client.closed /\ client'.closed) =>
                (~connected' /\ pc' = pc /\ holder' = holder /\ waiters' = waiters)
          /\ (connected /\ ~connected') => client'.closed]_vars
    /\ \A p \in Tasks :
          (client.closed /\ pc[p] \notin {"idle", "done"}) ~> (pc[p] \in {"idle", "done"})
    /\ client.closed ~> LockFree

\* the client was closed after a poll or write had read under the lock and
\* while another operation waits for the lock
C27_Witness ==
    /\ client.closed /\ ~connected
    /\ \E p, q \in Tasks :
          /\ InCS(p) /\ HasEvent(p, "read")
          /\ pc[q] = "wait"

\* C28: every value passed to a register write is an unsigned 16-bit word:
\* the transform's result is clamped to [0, 0xFFFF] whatever it is, the step
\* write and the calibration write produce words in [0, 0xFFFF]; so the
\* controller's registers never leave that range.
C28_WordsInRange ==
    /\ \A a \in DOMAIN dev : dev[a] \in 0..65535
    /\ \A p \in Tasks :
          /\ pc[p] = "write" => loc[p].new_value \in 0..65535
          /\ (pc[p] = "write" /\ op[p].kind = "transform" /\ op[p].tf.t = "offset") =>
                LET result == loc[p].current + op[p].tf.v
                IN  loc[p].new_value = (IF result < 0 THEN 0
                                        ELSE IF result > 65535 THEN 65535 ELSE result)
          /\ \A i \in 1..Len(ev[p]) :
                (ev[p][i][1] = "write" /\ op[p].kind # "calibration") =>
                    ev[p][i][3] \in 0..65535

\* a transform whose result is 257 + 70000 wrote 0xFFFF
C28_Witness ==
    \E p \in Tasks :
        /\ op[p].kind = "transform" /\ op[p].tf = Offset(70000)
        /\ outcome[p] = "written"
        /\ ev[p][2] = Event("cached", REG_COUNTER_SETTINGS_START, 257)
        /\ dev[REG_COUNTER_SETTINGS_START] = 65535

IsRead(e) == e[1] = "read"

\* the register reads of a poll cycle on a controller that reports n wireless
\* sensors, in order
CycleReads(n) ==
    LET k == IF n <= 50 THEN n ELSE 50
    IN  <<Event("read", REG_ALARM_MODE, 7)>>
        \o (IF n > 0
            THEN <<Event("read", REG_WIRELESS_PARAMS_START, k),
                   Event("read", REG_WIRELESS_SENSORS_START, k)>>
            ELSE <<>>)
        \o <<Event("read", REG_WATER_COUNTERS_START, 16),
             Event("read", REG_COUNTER_SETTINGS_START, 8)>>

\* C29: a poll cycle reads, holding the lock, the 7-word leading block, then
\* (only when the reported wireless count is > 0) the wireless-params and the
\* wireless-status block sized by that count, then the 16-word water-counter
\* block, then the 8-word counter-settings block: 3 reads with a count of 0
\* and 5 otherwise.
C29_PollReadOrder ==
    \A p \in Tasks :
        IsPoll(op[p]) =>
            LET reads == SelectSeq(ev[p], IsRead)
                cycle == CycleReads(dev[REG_WIRELESS_SENSOR_COUNT])
            IN  /\ Len(reads) <= Len(cycle)
                /\ reads = SubSeq(cycle, 1, Len(reads))
                /\ reads # <<>> => ev[p][1][1] = "acquire"
                /\ \A i, j \in 1..Len(ev[p]) :
                      (ev[p][i][1] = "release" /\ ev[p][j][1] = "read") => j < i
                /\ outcome[p] = "published" =>
                      /\ reads = cycle
                      /\ Len(reads) = (IF dev[REG_WIRELESS_SENSOR_COUNT] = 0 THEN 3 ELSE 5)

\* a published cycle of 5 reads on a controller that reports 2 sensors
C29_Witness ==
    \E p \in Tasks :
        /\ IsPoll(op[p]) /\ outcome[p] = "published"
        /\ dev[REG_WIRELESS_SENSOR_COUNT] = 2
        /\ Len(SelectSeq(ev[p], IsRead)) = 5
        /\ ev[p][3] = Event("read", REG_WIRELESS_PARAMS_START, 2)

\* the published snapshot has the raw field named by key
SnapshotHas(key) ==
    /\ data # NoData
    /\ key # NoKey
    /\ key[1] = "wireless_cfg_raw" => key[2] <= data.snap.wireless_sensor_count
    /\ key[1] = "counter_cfg_raw" => key[2] \in 1..8

\* the raw field of the snapshot named by key
SnapshotRaw(key) ==
    CASE key[1] = "wireless_cfg_raw" -> data.snap.wireless_cfg_raw[key[2]]
      [] key[1] = "counter_cfg_raw" -> data.snap.counter_cfg_raw[key[2]]
      [] OTHER -> data.snap.alarm_mode_raw

\* C30: a transform or step write takes its current value from the snapshot's
\* raw field when a snapshot exists and has the data key, and then issues no
\* transport read; with no snapshot, no data key or the key absent it issues
\* exactly one single-register read at the target address, under the lock,
\* before the transform is applied.
C30_CurrentValueSource ==
    \A p \in Tasks :
        (op[p].kind \in {"transform", "step"} /\ outcome[p] # "rejected"
            /\ (pc[p] = "write" \/ outcome[p] \in {"noop", "written"})) =>
            LET reads == SelectSeq(ev[p], IsRead)
            IN  /\ ev[p][1][1] = "acquire"
                /\ IF SnapshotHas(op[p].key)
                   THEN /\ reads = <<>>
                        /\ ev[p][2] = Event("cached", op[p].address, SnapshotRaw(op[p].key))
                        /\ pc[p] = "write" => loc[p].current = SnapshotRaw(op[p].key)
                   ELSE /\ reads = <<Event("read", op[p].address, 1)>>
                        /\ ev[p][2] = Event("read", op[p].address, 1)
                        /\ pc[p] = "write" =>
                              /\ op[p].address \in DOMAIN dev
                              /\ loc[p].current = dev[op[p].address]

\* a snapshot exists but reports no wireless sensor: the group select of
\* sensor 1 read register 7 and then wrote it
C30_Witness ==
    \E p \in Tasks :
        /\ op[p] = WirelessGroup(1, 1)
        /\ data # NoData /\ data.snap.wireless_sensor_count = 0
        /\ outcome[p] = "written"
        /\ ev[p][2] = Event("read", REG_WIRELESS_PARAMS_START, 1)

\* the bits a switch operation may change: those of its mask; the zone 1
\* toggle works on the zone bits 8 and 9
OwnBits(tf) ==
    IF tf.t \in {"zone_1_on", "zone_1_off"}
    THEN {i \in 0..15 : Bit(MASK_ZONE_BOTH, i) = 1 \/ Bit(ZONE_1_BIT8, i) = 1}
    ELSE {i \in 0..15 : Bit(tf.m, i) = 1}

\* p runs the enabled switch of a counter
IsCounterSwitch(p) == op[p].kind = "transform" /\ op[p].key[1] = "counter_cfg_raw"

\* p runs an alarm/mode switch
IsAlarmSwitch(p) == op[p].kind = "transform" /\ op[p].key[1] = "alarm_mode_raw"

\* C31: a switch that is not a counter switch writes only the alarm/mode
\* register, and the value it writes differs from the value it transformed
\* only in the bits of its own mask; the enabled switch of counter N leaves
\* the alarm/mode register alone, writes only register 123 + (N - 1), and
\* the value it writes differs from the value it transformed only in bit 0.
C31_SwitchFrame ==
    [][\A p \in Tasks :
        /\ (IsAlarmSwitch(p) /\ pc[p] = "write") =>
              /\ op[p].address = REG_ALARM_MODE
              /\ SameOutside(loc[p].new_value, loc[p].current, OwnBits(op[p].tf))
              /\ \A a \in DevAddrs : a # REG_ALARM_MODE => dev'[a] = dev[a]
        /\ (IsCounterSwitch(p) /\ pc[p] = "write") =>
              /\ op[p].address = 123 + (op[p].key[2] - 1)
              /\ SameOutside(loc[p].new_value, loc[p].current, {0})
              /\ \A a \in DevAddrs : a # 123 + (op[p].key[2] - 1) => dev'[a] = dev[a]]_vars

\* the enabled switch of counter 8 has been turned on and its write has gone
\* through (the word started at 0), and after it the switch of bit 15 has
\* been turned on over a word with other bits set and its write has gone
\* through
C31_Witness ==
    /\ dev[REG_ALARM_MODE] = 32768 + BIT_ZONE_1 + BIT_FLOOR_WASHING_MODE
    /\ dev[REG_COUNTER_SETTINGS_START + 7] = 1
    /\ \E p \in Tasks :
        /\ IsAlarmSwitch(p) /\ op[p].tf = SetBits(32768)
        /\ outcome[p] = "written"

\* p has run a set_bits or clear_bits switch of one alarm/mode bit to its
\* end without error
SingleBitSwitchDone(p, t) ==
    /\ IsAlarmSwitch(p) /\ op[p].tf.t = t
    /\ Cardinality(OwnBits(op[p].tf)) = 1
    /\ outcome[p] \in {"written", "noop"}

\* C32: with one caller awaiting each switch operation before the next, when
\* a turn-on of a single-bit alarm/mode switch has returned without error the
\* controller's alarm/mode register has the bit set, and when a turn-off has
\* returned without error it has the bit clear.
C32_SwitchTakesEffect ==
    \A p \in Tasks :
        /\ SingleBitSwitchDone(p, "set") =>
              AndN(dev[REG_ALARM_MODE], op[p].tf.m) = op[p].tf.m
        /\ SingleBitSwitchDone(p, "clear") =>
              AndN(dev[REG_ALARM_MODE], op[p].tf.m) = 0

\* task p ends a write operation in this step, whatever the end
WriteEnds(p) ==
    /\ outcome[p] \in {"none", "running"}
    /\ outcome'[p] \in {"written", "noop", "failed", "rejected"}
    /\ IsWrite(op'[p])

\* C33: self.data changes only in the step in which a poll cycle publishes
\* its snapshot; the step that ends a write (written, no-op, failed or
\* rejected) leaves every field of it as it was, and after a write that went
\* through the cached raw field of the written register still holds the
\* value the write started from.
C33_WritesLeaveSnapshot ==
    [][/\ data' # data =>
            \E q \in Tasks : IsPoll(op[q]) /\ outcome[q] = "running"
                              /\ outcome'[q] = "published"
       /\ \A p \in Tasks :
            /\ WriteEnds(p) => data' = data
            /\ (WriteEnds(p) /\ outcome'[p] = "written" /\ op[p].kind = "transform"
                    /\ CachedCurrent(data, op[p].key) # NoValue)
                  => CachedCurrent(data', op[p].key) = loc[p].current]_vars

\* a register transform has written a new word while a snapshot is
\* published, and the snapshot's raw field still holds the word from before
\* the write
C33_Witness ==
    \E p \in Tasks :
        /\ op[p].kind = "transform" /\ outcome[p] = "written"
        /\ HasEvent(p, "cached")
        /\ CachedCurrent(data, op[p].key) # NoValue
        /\ CachedCurrent(data, op[p].key) # dev[op[p].address]

\* the registers written under SpecRefresh, each with the key of its raw
\* field in the snapshot
WrittenRegs == {<<o.address, o.key>> : o \in RefreshOps}

\* a write of register k[1] has gone through and f transport faults have
\* happened so far
WrittenAt(k, f) ==
    /\ nFaults = f
    /\ \E p \in Tasks : /\ op[p].kind \in {"transform", "step"}
                         /\ op[p].address = k[1]
                         /\ outcome[p] = "written"

\* the published snapshot's raw field of register k[1] equals the register
CaughtUp(k) == CachedCurrent(data, k[2]) = dev[k[1]]

\* C34 as stated: after a write that went through, unless the transport
\* fails again, a poll eventually publishes a snapshot whose raw field of
\* the written register equals the register (which holds the written value
\* as long as no other write changes it), whatever the register.
C34_WrittenGetsPublished ==
    \A k \in WrittenRegs : \A f \in 0..MaxFaults :
        WrittenAt(k, f) ~> (CaughtUp(k) \/ nFaults > f)

\* the poll cycle reads register k[1]: the config word of wireless sensor i
\* is read only while the controller reports at least i sensors
PollReads(k) ==
    k[2][1] = "wireless_cfg_raw" => k[2][2] <= WirelessCount(ReadRegs(0, LEAD_BLOCK_COUNT))

\* C34 (amended): after a write that went through to a register the poll
\* cycle reads, unless the transport fails again, a poll eventually publishes
\* a snapshot whose raw field of that register equals the register.
C34_PolledWrittenGetsPublished ==
    \A k \in WrittenRegs : \A f \in 0..MaxFaults :
        (WrittenAt(k, f) /\ PollReads(k)) ~> (CaughtUp(k) \/ nFaults > f)

\* the refresh requested by a write has published a snapshot that holds the
\* alarm/mode word the write left on the controller
C34_Witness ==
    /\ AndN(dev[REG_ALARM_MODE], BIT_FLOOR_WASHING_MODE) # 0
    /\ writeSeq > 0
    /\ CachedCurrent(data, <<"alarm_mode_raw", 0>>) = dev[REG_ALARM_MODE]
    /\ \E p \in Tasks : op[p].kind = "refresh" /\ outcome[p] = "published"

\* the i-th attempt of the fixed order: device_id, slave, unit, each with
\* keyword arguments only and then with the positional arguments as well
NthAttempt(i) ==
    <<IF i <= 2 THEN "device_id" ELSE IF i <= 4 THEN "slave" ELSE "unit", i % 2 = 0>>

\* C35: every transport call attempts the conventions in the fixed order
\* and stops at the first attempt that raises no TypeError, whether that
\* attempt returns a result or raises another error (which ends the
\* operation at once); when all six raise TypeError the call has attempted
\* all six and the operation fails with the TypeError.
C35_FallbackOrder ==
    [][\A p \in Tasks :
          (Transported(p) \/ NewEvent(p, "type_error")) =>
              /\ \A i \in 1..Len(client'.tried) : client'.tried[i] = NthAttempt(i)
              /\ client.accepts # NoConvention =>
                    /\ Len(client'.tried) = client.accepts
                    /\ ~NewEvent(p, "type_error")
              /\ client.accepts = NoConvention =>
                    /\ Len(client'.tried) = 6
                    /\ NewEvent(p, "type_error") /\ FailsNow(p)]_vars

\* the client takes the unit identifier as unit= with keyword arguments
\* only: a call went through the four attempts before it and the fifth
\* raised another error, which ended the operation
C35_Witness ==
    /\ client.accepts = 5 /\ Len(client.tried) = 5
    /\ client.tried[5] = <<"unit", FALSE>>
    /\ nFaults = 1 /\ connected
    /\ \E p \in Tasks : outcome[p] = "failed" /\ HasEvent(p, "error")

\* the sequence 1, 2, ..., n
UpTo(n) == [i \in 1..n |-> i]

\* the elements of a sequence
Range(q) == {q[i] : i \in DOMAIN q}

\* C36: for every published snapshot, installed_counters lists exactly the
\* indices of 1..8 whose counter_<i>_enabled is true, in ascending order, as
\* many as detected_counters; installed_wireless_sensors is 1..min(50,
\* wireless_sensor_count) and the snapshot has wireless_<i>_raw for each of
\* them; detected_leak_lines is 1..n with n the snapshot's
\* detected_leak_lines.
C36_DerivedLists ==
    data # NoData =>
        /\ Range(installed_counters(data))
              = {i \in 1..8 : data.snap.counter_enabled[i]}
        /\ \A i, j \in DOMAIN installed_counters(data) :
              i < j => installed_counters(data)[i] < installed_counters(data)[j]
        /\ Len(installed_counters(data)) = data.snap.detected_counters
        /\ installed_wireless_sensors(data)
              = UpTo(Min(50, data.snap.wireless_sensor_count))
        /\ \A i \in Range(installed_wireless_sensors(data)) :
              i \in DOMAIN data.snap.wireless_raw
        /\ leak_lines(data) = UpTo(data.snap.detected_leak_lines)

\* a snapshot is published with counters 2, 5 and 8 enabled and only those
C36_Witness ==
    /\ data # NoData
    /\ installed_counters(data) = <<2, 5, 8>>
    /\ data.snap.detected_counters = 3

\* the bits of the field at shift of width bits
FieldBits(shift, width) == shift..(shift + width - 1)

\* C37: a select's transform changes the current word only inside its
\* field's mask, and once the select has ended (written, or nothing to
\* write) the poll decoder's field for that select, decoded from the
\* controller's registers, is the selected code; the selects of line N are
\* decoded as line N's type and group.
C37_SelectRoundTrip ==
    \A p \in Tasks : \A sel \in Selects : \A code \in SelectCodes(sel) :
        op[p] = SelectOp(sel, code) =>
            /\ pc[p] = "write" =>
                  SameOutside(loc[p].new_value, loc[p].current,
                              FieldBits(op[p].tf.s, op[p].tf.w))
            /\ outcome[p] \in {"written", "noop"} =>
                  SelectDecoded(sel, DecodeNow) = code

\* line 4's type select set to 2 over the word 0xA5A5 has written 0xA5A9,
\* and the refresh it asked for has published type 2 for line 4
C37_Witness ==
    /\ dev[REG_LINE_CFG_3_4] = 42405 - 4 + 8
    /\ data # NoData /\ data.snap.line_type[4] = 2
    /\ data.snap.line_cfg_3_4_raw = dev[REG_LINE_CFG_3_4]
    /\ \E p \in Tasks : op[p].kind = "refresh" /\ outcome[p] = "published"

\* task p sets a counter's step, one way or the other
SetsStep(p) ==
    \/ op[p].kind = "step"
    \/ op[p].kind = "transform" /\ op[p].tf.t = "mask" /\ op[p].tf.s = 8

\* the same request made the other way: the step select for a call of
\* async_write_counter_step, and the reverse
OtherWay(o) ==
    IF o.kind = "step" THEN CounterStepSelect(o.index, o.arg)
    ELSE StepOp(o.key[2], o.tf.v)

\* the current word task p is about to take: the cached one, else the
\* register's
CurrentOf(p) ==
    IF CachedCurrent(data, op[p].key) # NoValue
    THEN CachedCurrent(data, op[p].key)
    ELSE dev[op[p].address]

\* C38: for every counter index in 1..8, step in {1, 10, 100} and current
\* word, the step select and async_write_counter_step work on the same
\* register and snapshot key, end as a no-op on the same words, and write
\* the same value otherwise.
C38_StepWaysAgree ==
    [][\A p \in Tasks :
          (SetsStep(p) /\ pc[p] = "current" /\ pc'[p] # "current"
                /\ outcome'[p] # "failed") =>
              LET other == OtherWay(op[p])
              IN  /\ other.address = op[p].address
                  /\ other.key = op[p].key
                  /\ (outcome'[p] = "noop") = (NewValue(other, CurrentOf(p)) = CurrentOf(p))
                  /\ pc'[p] = "write" =>
                        loc'[p].new_value = NewValue(other, CurrentOf(p))]_vars

\* the step select of counter 8 has written step 100 over a word with the
\* low byte 0xAF, and async_write_counter_step would have written the same
C38_Witness ==
    \E p \in Tasks :
        /\ op[p] = CounterStepSelect(8, 100)
        /\ outcome[p] = "written"
        /\ dev[REG_COUNTER_SETTINGS_START + 7] = 100 * 256 + 175
        /\ dev[REG_COUNTER_SETTINGS_START + 7] = NewValue(StepOp(8, 100), 175)

\* the published snapshot was read after the latest write
SnapshotAfterWrite == data # NoData /\ TagWrites(data.src) = {writeSeq}

\* C39: after a calibration of counter c to m thousandths (0 <= m <=
\* 0x7FFFFFFF) has gone through and a poll after it has published, the field
\* the calibration entity of c reads holds m, and the field of every other
\* counter holds the value of that counter's words, which are the words the
\* controller started with.
C39_CalibrationRoundTrip ==
    \A p \in Tasks :
        (IsCalibration(p) /\ outcome[p] = "written" /\ SnapshotAfterWrite) =>
            LET wc == data.snap.water_counter
                c == op[p].index
            IN  /\ counter_water_key(c) \in DOMAIN wc
                /\ wc[counter_water_key(c)] = op[p].arg
                /\ \A d \in (1..8) \ {c} :
                      /\ <<WaterHi(d), WaterLo(d)>> \in {<<0, d>>, <<65535, 65535>>}
                      /\ wc[counter_water_key(d)] =
                            (IF WaterHi(d) = 0 THEN d ELSE 0 - 1)

\* counter 5 was calibrated to 2147483.647 m3 while counter 2 reads -0.001
\* m3, and the refresh has published both
C39_Witness ==
    /\ SnapshotAfterWrite /\ writeSeq = 1
    /\ data.snap.water_counter[<<3, 1>>] = INT32_MAX
    /\ data.snap.water_counter[<<1, 2>>] = 0 - 1
    /\ \E p \in Tasks : IsCalibration(p) /\ outcome[p] = "written" /\ op[p].index = 5

====
